---- MODULE Spec2Model ----
(***************************************************************************)
(* Model of the wayfire output/plugin activation protocol                  *)
(* (src/src/output.cpp) and of the switcher plugin's staged animation      *)
(* state machine (src/plugins/single_plugins/switcher.cpp).                *)
(*                                                                         *)
(* Every C++ function is an operator from a world record w (one field per  *)
(* program variable) to the world record after the call, so that nested    *)
(* calls compose as in the code.  An action reads the variables into a     *)
(* world record, applies the whole handler and writes the result back.     *)
(***************************************************************************)
EXTENDS Integers, Sequences, FiniteSets, TLC

\* ------------------------------------------------------------------ bounds
MaskBits == 2        \* capability masks range over 0 .. 2^MaskBits - 1
MaxRefs == 2         \* activations of one owner that are followed
NumViews == 3        \* views on the workspace at start
MaxQueuedExit == 1   \* exit requests waiting in the queue that are followed
MaxQueuedPrev == 0   \* previous-view requests waiting in the queue that are followed
MaxStep == 3         \* value of current_step up to which frames are followed
MaxHooks == 1        \* registrations of the animation hook that are followed
MaxRedraw == 2       \* value of constant_redraw up to which calls are followed
RectCells == 2       \* cells that a workspace is divided in
MaxScale == 3        \* scales of a workspace stream range over 1 .. MaxScale
NumSurfaces == 3     \* surfaces of the tree, its view included
MaxSize == 2         \* widths of surface buffers range over 1 .. MaxSize
ViewOffset == 1      \* where the view of the tree was moved to
MaxGrow == 1         \* cells a transformer's bounding box extends a box by
NumObjects == 5      \* surface objects built in a run of the destructor model
NumDecorations == 2  \* decoration views
MaxWraps == 2        \* entries of a decoration's child list that are followed
MaxWorkarea == 1     \* the workarea starts at 0 .. MaxWorkarea
MaxX == 3            \* positions up to which map requests are followed
max_steps == 2               \* "duration" of unfold and rotate, in frames
initial_animation_steps == 1 \* "initial_animation", frames of a fold

\* --------------------------------------------------------- program constants
MAX_ACTIONS == 4
ABILITY_CONTROL_WM == 1

NULL == "null"
Outputs == {"o1", "o2"}
GrabInterfaces == {"g1", "g2"}
Masks == 0 .. (2^MaskBits - 1)
AllViews == 1 .. NumViews
NoView == 0          \* a null wayfire_view
Decorations == 1 .. NumDecorations

\* the output the switcher instance is loaded on, and its grab interface
output == "o1"
grab_interface == "g1"

VARIABLES
    active_output,       \* core->active_output
    active_plugins,      \* per output: std::multiset of grab interfaces, as counts
    abilities_mask,      \* grab_interface->abilities_mask of every interface
    grabbed,             \* grab_interface->grabbed of every interface
    state,               \* view_switcher::state
    next_actions,        \* view_switcher::next_actions
    current_view_index,  \* view_switcher::current_view_index
    current_step,        \* view_switcher::current_step
    views,               \* view_switcher::views
    active_views,        \* view_switcher::active_views
    ws_views,            \* views of the current workspace, topmost first
    transformer,         \* per view: a wf_3D_view transformer is installed
    transform,           \* per view: translation, scaling, rotation of it
    bg_transformer,      \* the background view has a wf_3D_view transformer
    attribs,             \* view_switcher::attribs, as chosen by setup_graphics
    alpha,               \* per view: alpha, in tenths
    active_view,         \* wayfire_output::active_view
    constant_redraw,     \* render_manager::constant_redraw
    output_effects,      \* number of times the switcher hook is in output_effects
    idle_redraw_source,  \* render_manager::idle_redraw_source is not NULL
    idle_callbacks,      \* redraw_idle_cb entries waiting in the event loop
    frame_scheduled,     \* a frame event of the output is due
    frame_damage,        \* render_manager::frame_damage, as cells of the workspace
    stream,              \* a wf_workspace_stream of the output
    surfaces,            \* the wayfire_surface_t objects of one view's tree
    cached_damage,       \* offscreen_buffer.cached_damage of that view, as cells
    bounding,            \* how far its transformer's bounding box reaches out
    parent,              \* per view: wayfire_view_t::parent
    children,            \* per view: wayfire_view_t::children
    focus_parent,        \* wayfire_handle_focus_parent listens to "focus-view"
    decoration,          \* the decoration field of the view of the tree
    decor_views,         \* decoration view -> [contained, surface_children]
    desktop_surfaces,    \* core->api->desktop_surfaces: the objects in the table
    objects,             \* surface object -> [parent_surface, surface_children]
    allocated,           \* the surface objects that were built and not deleted
    connected,           \* "destroy-view"/"detach-view" connected to `destroyed`
    fault,               \* "none", or why the process stopped
    ret,                 \* return value of the last call of the output's interface
    emitted,             \* signals emitted during that call
    last                 \* that call: its name and arguments

vars == <<active_output, active_plugins, abilities_mask, grabbed, state,
          next_actions, current_view_index, current_step, views, active_views,
          ws_views, transformer, transform, bg_transformer, attribs, alpha, active_view, constant_redraw,
          output_effects, idle_redraw_source, idle_callbacks, frame_scheduled,
          frame_damage, stream, surfaces, cached_damage, bounding,
          parent, children, focus_parent, decoration, decor_views,
          desktop_surfaces, objects, allocated,
          connected, fault, ret, emitted, last>>

\* The program state as one record.
World ==
    [active_output |-> active_output, active_plugins |-> active_plugins,
     grabbed |-> grabbed, state |-> state, next_actions |-> next_actions,
     current_view_index |-> current_view_index, current_step |-> current_step,
     views |-> views, active_views |-> active_views, ws_views |-> ws_views,
     transformer |-> transformer, transform |-> transform,
     bg_transformer |-> bg_transformer,
     attribs |-> attribs, alpha |-> alpha, active_view |-> active_view,
     constant_redraw |-> constant_redraw, output_effects |-> output_effects,
     idle_redraw_source |-> idle_redraw_source,
     idle_callbacks |-> idle_callbacks, frame_scheduled |-> frame_scheduled,
     frame_damage |-> frame_damage, stream |-> stream,
     surfaces |-> surfaces, cached_damage |-> cached_damage,
     bounding |-> bounding, damaged |-> <<>>,
     parent |-> parent, children |-> children, focus_parent |-> focus_parent,
     decoration |-> decoration, decor_views |-> decor_views,
     desktop_surfaces |-> desktop_surfaces, objects |-> objects,
     allocated |-> allocated,
     last_view |-> NoView,
     connected |-> connected, fault |-> fault, ret |-> ret,
     emitted |-> <<>>]

\* Write the program variables of a world record back.
Store(w) ==
    /\ active_output' = w.active_output
    /\ active_plugins' = w.active_plugins
    /\ grabbed' = w.grabbed
    /\ state' = w.state
    /\ next_actions' = w.next_actions
    /\ current_view_index' = w.current_view_index
    /\ current_step' = w.current_step
    /\ views' = w.views
    /\ active_views' = w.active_views
    /\ ws_views' = w.ws_views
    /\ transformer' = w.transformer
    /\ transform' = w.transform
    /\ bg_transformer' = w.bg_transformer
    /\ attribs' = w.attribs
    /\ alpha' = w.alpha
    /\ active_view' = w.active_view
    /\ constant_redraw' = w.constant_redraw
    /\ output_effects' = w.output_effects
    /\ idle_redraw_source' = w.idle_redraw_source
    /\ idle_callbacks' = w.idle_callbacks
    /\ frame_scheduled' = w.frame_scheduled
    /\ frame_damage' = w.frame_damage
    /\ stream' = w.stream
    /\ surfaces' = w.surfaces
    /\ cached_damage' = w.cached_damage
    /\ bounding' = w.bounding
    /\ parent' = w.parent
    /\ children' = w.children
    /\ focus_parent' = w.focus_parent
    /\ decoration' = w.decoration
    /\ decor_views' = w.decor_views
    /\ desktop_surfaces' = w.desktop_surfaces
    /\ objects' = w.objects
    /\ allocated' = w.allocated
    /\ connected' = w.connected
    /\ fault' = w.fault
    /\ UNCHANGED abilities_mask

\* A call of the output's interface, with what the caller observes of it.
Commit(w, op) ==
    /\ Store(w)
    /\ ret' = w.ret
    /\ emitted' = w.emitted
    /\ last' = op

\* ------------------------------------------------------------------ helpers
RECURSIVE BitAnd(_, _)
BitAnd(a, b) ==
    IF a = 0 \/ b = 0 THEN 0
    ELSE (a % 2) * (b % 2) + 2 * BitAnd(a \div 2, b \div 2)

\* members of an output's active_plugins multiset
ActiveSet(w, o) == {p \in GrabInterfaces : w.active_plugins[o][p] > 0}

\* ------------------------------------------------------ output: activation
emit_signal(w, name) == [w EXCEPT !.emitted = Append(@, name)]

Stopped(w) == w.fault # "none"

assert_failed(w, what) == [w EXCEPT !.fault = what]

undefined(w) == [w EXCEPT !.fault = "ub"]

Occurrences(seq, x) == Len(SelectSeq(seq, LAMBDA y : y = x))

ungrab(w, owner) == [w EXCEPT !.grabbed[owner] = FALSE]

grab(w, owner) == [w EXCEPT !.grabbed[owner] = TRUE]

\* line 1051, with the operator mutated to a union
compatible_or(a, b) == (a = 0 /\ b = 0)

compatible(a, b) == BitAnd(a, b) = 0

\* line 1039, with the test dropped
is_focused_any(w, o) == TRUE

is_focused(w, o) == w.active_output = o

\* lines 1049-1054, with the loop body never refusing
conflicts_never(w, o, owner) == FALSE

conflicts(w, o, owner) ==
    \E act_owner \in ActiveSet(w, o) :
        ~compatible(abilities_mask[act_owner], abilities_mask[owner])

\* line 1045, inserting into a std::set instead of the std::multiset
reinsert_set(w, o, owner) == w

reinsert(w, o, owner) == [w EXCEPT !.active_plugins[o][owner] = @ + 1]

activate_plugin(w, o, owner, lower_fs) ==
    IF owner = NULL THEN [w EXCEPT !.ret = FALSE]
    ELSE IF ~is_focused(w, o) THEN [w EXCEPT !.ret = FALSE]
    ELSE IF w.active_plugins[o][owner] > 0
        THEN [reinsert(w, o, owner) EXCEPT !.ret = TRUE]
    ELSE IF conflicts(w, o, owner)
        THEN [w EXCEPT !.ret = FALSE]
    ELSE LET w1 == IF lower_fs /\ ActiveSet(w, o) = {}
                       THEN emit_signal(w, "_activation_request")
                       ELSE w
         IN  [w1 EXCEPT !.active_plugins[o][owner] = 1, !.ret = TRUE]

\* lines 1076-1085, with the ungrab() call forgotten
release_owner_keep_grab(w, o, owner) ==
    LET w3 == IF ActiveSet(w, o) = {}
                  THEN emit_signal(w, "_activation_request")
                  ELSE w
    IN  [w3 EXCEPT !.ret = TRUE]

release_owner(w, o, owner) ==
    LET w2 == ungrab(w, owner)
        w3 == IF ActiveSet(w2, o) = {}
                  THEN emit_signal(w2, "_activation_request")
                  ELSE w2
    IN  [w3 EXCEPT !.ret = TRUE]

deactivate_plugin(w, o, owner) ==
    IF owner = NULL \/ w.active_plugins[o][owner] = 0
        THEN [w EXCEPT !.ret = TRUE]
    ELSE LET w1 == [w EXCEPT !.active_plugins[o][owner] = @ - 1]
         IN  IF w1.active_plugins[o][owner] = 0
                 THEN release_owner(w1, o, owner)
                 ELSE [w1 EXCEPT !.ret = FALSE]

is_plugin_active(w, o, owner) == w.active_plugins[o][owner] > 0

get_input_grab_interface(w, o) ==
    IF \E p \in ActiveSet(w, o) : w.grabbed[p]
        THEN CHOOSE p \in ActiveSet(w, o) : w.grabbed[p]
        ELSE NULL

focus_output(w, o) == [w EXCEPT !.active_output = o]

\* ------------------------------------------------------ output: views, focus
\* vector element i (0-based)
At(seq, i) == seq[i + 1]

Remove(seq, v) == SelectSeq(seq, LAMBDA x : x # v)

view_bring_to_front(w, v) == [w EXCEPT !.ws_views = <<v>> \o Remove(@, v)]

view_removed(w, v) == [w EXCEPT !.ws_views = Remove(@, v)]

get_views_on_workspace(w) == w.ws_views

\* lines 190-193: damage added to the wlr_output_damage makes a frame due;
\* wayfire_view_t::damage (view.cpp:600-620) ends here
damage(w) == [w EXCEPT !.frame_scheduled = TRUE]

bring_to_front(w, v) == damage(view_bring_to_front(damage(w), v))

\* wm.cpp:94-96: the walk to the topmost parent; it does not end on a cycle
RECURSIVE topmost_parent(_, _, _)
topmost_parent(w, to_focus, steps) ==
    IF w.parent[to_focus] = NoView THEN to_focus
    ELSE IF steps > NumViews THEN NoView
    ELSE topmost_parent(w, w.parent[to_focus], steps + 1)

\* wm.cpp:83-89; the recursion does not end when a view is below itself
RECURSIVE focus_parent_focus_view(_, _, _)
RECURSIVE focus_parent_focus_each(_, _, _)
focus_parent_focus_each(w, cs, depth) ==
    IF cs = <<>> \/ Stopped(w) THEN w
    ELSE focus_parent_focus_each(focus_parent_focus_view(w, Head(cs), depth),
                                 Tail(cs), depth)

focus_parent_focus_view(w, view, depth) ==
    IF depth > NumViews THEN assert_failed(w, "hang")
    ELSE focus_parent_focus_each(
             bring_to_front([w EXCEPT !.last_view = view], view),
             w.children[view], depth + 1)

\* output.cpp:985-1004 up to the signal
set_focus(w, v) ==
    emit_signal(IF v # NoView
                    THEN bring_to_front([w EXCEPT !.active_view = v], v)
                    ELSE [w EXCEPT !.active_view = v],
                "focus-view")

\* wm.cpp:91-107, the listener on "focus-view"; w is the state in which
\* the signal is emitted
RECURSIVE focus_view_from(_, _, _)
refocus_last_view(w) ==
    IF Stopped(w) THEN w ELSE focus_view_from(w, w.last_view, TRUE)

focus_parent_listener(w, v, intercept_recursion) ==
    IF ~w.focus_parent \/ v = NoView \/ intercept_recursion THEN w
    ELSE IF topmost_parent(w, v, 0) = NoView THEN assert_failed(w, "hang")
    ELSE refocus_last_view(
             focus_parent_focus_view(w, topmost_parent(w, v, 0), 0))

\* output.cpp:985-1004 with its listener
focus_view_from(w, v, intercept_recursion) ==
    focus_parent_listener(set_focus(w, v), v, intercept_recursion)

focus_view(w, v) == focus_view_from(w, v, FALSE)

\* view.cpp:570-585, leaving the view in the children of its old parent
set_parent_keep(w, v, p) ==
    LET w1 == [w EXCEPT !.parent[v] = p]
    IN  IF p # NoView /\ Occurrences(w1.children[p], v) = 0
            THEN [w1 EXCEPT !.children[p] = Append(@, v)]
            ELSE w1

\* view.cpp:570-585.  std::remove moves the other entries to the front and
\* erase(it) takes out the one entry at it: nothing when there is no entry
\* to take out (erase(end())), and what the other slots hold when there
\* are several
set_parent(w, v, p) ==
    LET old == w.parent[v]
        n == IF old = NoView THEN 1 ELSE Occurrences(w.children[old], v)
        w0 == IF old = NoView THEN w
              ELSE [w EXCEPT !.children[old] =
                       Remove(@, v) \o [i \in 1 .. n - 1 |-> v]]
        w1 == [w0 EXCEPT !.parent[v] = p]
    IN  IF n = 0 THEN undefined(w)
        ELSE IF p # NoView /\ Occurrences(w1.children[p], v) = 0
            THEN [w1 EXCEPT !.children[p] = Append(@, v)]
            ELSE w1

\* ------------------------------------------------------------ render manager
\* lines 218-222: wl_event_loop_add_idle only while no source is kept
schedule_redraw_always(w) ==
    [w EXCEPT !.idle_redraw_source = TRUE, !.idle_callbacks = @ + 1]

schedule_redraw(w) ==
    IF ~w.idle_redraw_source
    THEN [w EXCEPT !.idle_redraw_source = TRUE, !.idle_callbacks = @ + 1]
    ELSE w

\* lines 195-202: the event loop runs an idle entry once and drops it
redraw_idle_cb(w) ==
    [w EXCEPT !.idle_callbacks = @ - 1, !.frame_scheduled = TRUE,
              !.idle_redraw_source = FALSE]

\* lines 204-216, without the lower limit
auto_redraw_noclamp(w, redraw) ==
    LET c == w.constant_redraw + (IF redraw THEN 1 ELSE -1)
        w1 == [w EXCEPT !.constant_redraw = c]
    IN  IF c > 1 THEN w1 ELSE schedule_redraw(w1)

auto_redraw(w, redraw) ==
    LET c == w.constant_redraw + (IF redraw THEN 1 ELSE -1)
        w1 == [w EXCEPT !.constant_redraw = c]
    IN  IF c > 1 THEN w1
        ELSE IF c < 0 THEN [w1 EXCEPT !.constant_redraw = 0]
        ELSE schedule_redraw(w1)

add_output_effect(w) == [w EXCEPT !.output_effects = @ + 1]

connect_signal(w) == [w EXCEPT !.connected = TRUE]

disconnect_signal(w) == [w EXCEPT !.connected = FALSE]

\* ------------------------------------------------------------------ switcher
UPDATE_SCALE == 1
UPDATE_OFFSET == 2
UPDATE_ROTATION == 4

KEY_TAB == "activate_key"
KEY_ESC == "fast_switch_key"
KEY_RIGHT == "next_view"
KEY_LEFT == "prev_view"
KEY_ENTER == "terminate"
Keys == {KEY_TAB, KEY_ESC, KEY_RIGHT, KEY_LEFT, KEY_ENTER, "other"}
MODIFIER_ALT == "alt"
Mods == {MODIFIER_ALT, "other"}
KEY_PRESSED == "pressed"
KEY_RELEASED == "released"
KeyStates == {KEY_PRESSED, KEY_RELEASED}

\* a failed assert() or undefined behaviour: the call is not followed further
\* state.in_rotate || state.in_fold || state.in_unfold
Animating(w) == w.state.in_rotate \/ w.state.in_fold \/ w.state.in_unfold

Size(w) == Len(w.views)

\* A duple {start, end}.  Offsets along x are <<c, k>>: c times the distance
\* cx of the view from the screen centre plus k times attribs.offset * sw / 2;
\* off_y is in units of cy, off_z of attribs.back, rot of attribs.angle; a
\* scale is "1" or the "scale_factor" of the view.
duple(start, end) == [start |-> start, end |-> end]

\* a member of view_paint_attribs that is left uninitialized and not read
Unset == duple("unset", "unset")

\* rot when it is left uninitialized and not read: no rotation has the
\* multiple 2 of the angle
UnsetRot == duple(2, 2)

\* the value v itself, and a value part of the way between two others
Exact(v) == [from |-> v, to |-> v, step |-> 0, of |-> 1]

\* lerp(start, end, step / maxstep)
GetProgress(start, end, step, maxstep) ==
    IF start = end THEN Exact(start)
    ELSE IF step = maxstep THEN Exact(end)
    ELSE IF step = 0 THEN Exact(start)
    ELSE [from |-> start, to |-> end, step |-> step, of |-> maxstep]

\* a new wf_3D_view: nothing is moved, scaled or rotated
Identity ==
    [translation |-> [x |-> Exact(<<0, 0>>), y |-> Exact(0), z |-> Exact(0)],
     scaling |-> [x |-> Exact("1"), y |-> Exact("1")],
     rotation |-> Exact(0)]

\* lines 181-189
setup_graphics(w) ==
    [w EXCEPT !.attribs = IF Len(w.views) = 2 THEN "narrow" ELSE "wide"]

update_views(w) ==
    [w EXCEPT !.current_view_index = 0, !.views = get_views_on_workspace(w)]

update_transforms(w) ==
    LET fresh(v) == ~w.transformer[v] /\ \E i \in 1 .. Len(w.views) : w.views[i] = v
    IN  [w EXCEPT !.transformer = [v \in AllViews |-> IF fresh(v) THEN TRUE ELSE @[v]],
                  !.transform = [v \in AllViews |-> IF fresh(v) THEN Identity ELSE @[v]]]

\* lines 351-354; views[i] is read when i is not an index of views
view_chosen(w, i) ==
    LET RECURSIVE raise(_, _)
        raise(x, k) == IF k = 0 THEN x
                       ELSE raise(bring_to_front(x, x.views[k]), k - 1)
        w1 == raise(w, Len(w.views))
    IN  IF i >= Len(w.views) THEN undefined(w1)
        ELSE focus_view(w1, At(w1.views, i))

start_fold(w) ==
    LET w1 == update_views(
                 [w EXCEPT !.active_views = <<>>, !.state.in_fold = TRUE,
                           !.current_step = 0])
        elem(v) ==
            IF w1.state.reversed_folds
                THEN [view |-> v, off_z |-> duple(0, 0), rot |-> UnsetRot,
                      off_x |-> duple(<<1, 0>>, <<0, 0>>), off_y |-> duple(1, 0),
                      scale_x |-> duple("scale_factor", "1"),
                      scale_y |-> duple("scale_factor", "1"),
                      updates |-> UPDATE_OFFSET + UPDATE_SCALE]
                ELSE [view |-> v, off_z |-> duple(0, 0), rot |-> UnsetRot,
                      off_x |-> duple(<<0, 0>>, <<1, 0>>), off_y |-> duple(0, 1),
                      scale_x |-> duple("1", "scale_factor"),
                      scale_y |-> duple("1", "scale_factor"),
                      updates |-> UPDATE_OFFSET + UPDATE_SCALE]
    IN  [w1 EXCEPT !.active_views =
                   [i \in 1 .. Len(w1.views) |-> elem(w1.views[i])]]

\* lines 508-530, with the start and the end of off_x exchanged
push_unfolded_transformed_view_back(v, off_x, off_z, rot) ==
    [view |-> v,
     off_x |-> duple(<<1, off_x.end>>, <<1, off_x.start>>),
     off_y |-> duple(1, 1),
     off_z |-> off_z, rot |-> rot,
     scale_x |-> Unset, scale_y |-> Unset,
     updates |-> UPDATE_ROTATION + UPDATE_OFFSET]

\* lines 508-530; off_x, off_z and rot in units of the attribs
push_unfolded_transformed_view(v, off_x, off_z, rot) ==
    [view |-> v,
     off_x |-> duple(<<1, off_x.start>>, <<1, off_x.end>>),
     off_y |-> duple(1, 1),
     off_z |-> off_z, rot |-> rot,
     scale_x |-> Unset, scale_y |-> Unset,
     updates |-> UPDATE_ROTATION + UPDATE_OFFSET]

\* lines 573-581
swap(d) == duple(d.end, d.start)

\* lines 539-571; the vector is read out of range when the index is not one
\* of its indices (an empty list makes the modulus zero)
start_unfold(w) ==
    LET n == Len(w.views)
        cur == w.current_view_index
        w1 == [w EXCEPT !.state.in_unfold = TRUE, !.current_step = 0,
                               !.active_views = <<>>]
        push(i, off_x, off_z, rot) ==
            push_unfolded_transformed_view(At(w.views, i), off_x, off_z, rot)
        pushed ==
            IF n = 2
                THEN <<push(cur, duple(0, 1), duple(0, -1), duple(0, -1)),
                       push(1 - cur, duple(0, -1), duple(0, -1), duple(0, 1))>>
                ELSE <<push(cur, duple(0, 0), duple(0, 0), duple(0, 0)),
                       push((cur + n - 1) % n, duple(0, -1), duple(0, -1), duple(0, 1)),
                       push((cur + 1) % n, duple(0, 1), duple(0, -1), duple(0, -1))>>
        swapped(e) == [e EXCEPT !.off_x = swap(@), !.off_z = swap(@), !.rot = swap(@)]
    IN  IF n = 0 \/ cur >= n THEN undefined(w1)
        ELSE [w1 EXCEPT !.active_views =
                 IF w.state.reversed_folds
                     THEN [i \in 1 .. Len(pushed) |-> swapped(pushed[i])]
                     ELSE pushed]

start_rotate(w, dir) ==
    LET sz == Len(w.views)
        cur == (w.current_view_index + dir + sz) % sz
        next == (cur + 1) % sz
        prev == (cur - 1 + sz) % sz
        push(i, off_x, off_z, rot) ==
            push_unfolded_transformed_view(At(w.views, i), off_x, off_z, rot)
        w1 == [w EXCEPT !.state.in_rotate = TRUE, !.current_step = 0,
                        !.current_view_index = cur]
        w2 == bring_to_front(w1, At(w.views, cur))
    IN  IF sz <= 1 THEN w
        ELSE [w2 EXCEPT !.active_views =
                 IF next = prev
                     THEN <<push(cur, duple(-1, 1), duple(1, 1), duple(1, -1)),
                            push(next, duple(-1, -1), duple(1, 1), duple(1, 1))>>
                 ELSE IF dir = 1
                     THEN <<push(cur, duple(dir, 0), duple(-1, 0), duple(-dir, 0)),
                            push(prev, duple(0, -1), duple(0, -1), duple(0, 1)),
                            push(next, duple(1, 1), duple(-1, -1), duple(-1, -1))>>
                 ELSE <<push(cur, duple(dir, 0), duple(-1, 0), duple(-dir, 0)),
                        push(next, duple(0, 1), duple(0, -1), duple(0, -1)),
                        push(prev, duple(-1, -1), duple(-1, -1), duple(1, 1))>>]

\* line 258, with the comparison off by one
queue_has_room_le(w) == Len(w.next_actions) <= MAX_ACTIONS

queue_has_room(w) == Len(w.next_actions) < MAX_ACTIONS

push_exit(w) ==
    IF Animating(w)
        THEN [w EXCEPT !.next_actions = Append(@, 0)]
    ELSE LET w1 == [w EXCEPT !.state.reversed_folds = TRUE]
         IN  IF Size(w1) >= 2 THEN start_unfold(w1) ELSE start_fold(w1)

push_next_view(w, delta) ==
    IF Animating(w) /\ queue_has_room(w)
        THEN [w EXCEPT !.next_actions = Append(@, delta)]
    ELSE start_rotate(w, delta)

\* lines 759-776, leaving the alpha of the view that was current
fast_switch_next_keep(w) ==
    LET n == Len(w.views)
        idx == w.current_view_index
        nxt == (idx + 1) % n
        w2 == [w EXCEPT !.current_view_index = nxt,
                        !.alpha[At(w.views, nxt)] = 10]
    IN  IF n = 0 \/ idx >= n THEN undefined(w)
        ELSE bring_to_front(w2, At(w.views, nxt))

fast_switch_next(w) ==
    LET n == Len(w.views)
        idx == w.current_view_index
        nxt == (idx + 1) % n
        w1 == [w EXCEPT !.alpha[At(w.views, idx)] = 7]
        w2 == [w1 EXCEPT !.current_view_index = nxt,
                         !.alpha[At(w.views, nxt)] = 10]
    IN  IF n = 0 \/ idx >= n THEN undefined(w)
        ELSE bring_to_front(w2, At(w.views, nxt))

fast_switch_terminate(w) ==
    LET InViews(v) == \E i \in 1 .. Len(w.views) : w.views[i] = v
        w1 == [w EXCEPT !.transformer =
                            [v \in AllViews |-> IF InViews(v) THEN FALSE ELSE @[v]],
                        !.transform =
                            [v \in AllViews |-> IF InViews(v) THEN Identity ELSE @[v]],
                        !.alpha =
                            [v \in AllViews |-> IF InViews(v) THEN 10 ELSE @[v]]]
        w2 == view_chosen(IF w.views = <<>> THEN w1 ELSE damage(w1),
                          w1.current_view_index)
        w3 == deactivate_plugin(ungrab(w2, grab_interface), output, grab_interface)
    IN  IF Stopped(w2) THEN w2
        ELSE disconnect_signal([w3 EXCEPT !.state.active = FALSE,
                                          !.state.in_fast_switch = FALSE])

deactivate(w) ==
    LET InViews(v) == \E i \in 1 .. Len(w.views) : w.views[i] = v
        w1 == auto_redraw(w, FALSE)
        w2 == deactivate_plugin(ungrab(w1, grab_interface), output, grab_interface)
        w3 == [w2 EXCEPT !.transformer =
                            [v \in AllViews |-> IF InViews(v) THEN FALSE ELSE @[v]],
                         !.transform =
                            [v \in AllViews |-> IF InViews(v) THEN Identity ELSE @[v]],
                         !.bg_transformer = FALSE,
                         !.state.active = FALSE]
        w4 == view_chosen(w3, w3.current_view_index)
    IN  IF Stopped(w4) THEN w4 ELSE disconnect_signal(w4)

stop_continuous_switch(w) ==
    LET w1 == [w EXCEPT !.state.in_continuous_switch = FALSE]
    IN  IF w1.state.in_fast_switch THEN fast_switch_terminate(w1)
        ELSE push_exit(w1)

\* lines 440-443: assert(tr) for every rendered view
RECURSIVE apply_transforms(_, _, _, _)
apply_transforms(w, elems, step, maxstep) ==
    IF elems = <<>> THEN w
    ELSE LET v == Head(elems)
             P(d) == GetProgress(d.start, d.end, step, maxstep)
             has(bit) == BitAnd(v.updates, bit) # 0
             tr == w.transform[v.view]
             tr1 == [tr EXCEPT
                       !.translation =
                           IF has(UPDATE_OFFSET)
                               THEN [x |-> P(v.off_x), y |-> P(v.off_y), z |-> P(v.off_z)]
                               ELSE @,
                       !.scaling =
                           IF has(UPDATE_SCALE)
                               THEN [x |-> P(v.scale_x), y |-> P(v.scale_y)]
                               ELSE @,
                       !.rotation =
                           IF has(UPDATE_ROTATION) THEN P(v.rot) ELSE @]
         IN  IF ~w.transformer[v.view] THEN assert_failed(w, "assert(tr)")
             ELSE apply_transforms(damage([w EXCEPT !.transform[v.view] = tr1]),
                                   Tail(elems), step, maxstep)

update_view_transforms(w, step, maxstep) ==
    apply_transforms(w, w.active_views, step, maxstep)

dequeue_next_action_keep(w) ==
    IF w.next_actions = <<>> THEN w
    ELSE LET next == Head(w.next_actions)
         IN  IF Animating(w) THEN assert_failed(w, "assert(!in_stage)")
             ELSE IF next = 0 THEN push_exit(w)
             ELSE push_next_view(w, next)

dequeue_next_action(w) ==
    IF w.next_actions = <<>> THEN w
    ELSE LET next == Head(w.next_actions)
             w1 == [w EXCEPT !.next_actions = Tail(@)]
         IN  IF Animating(w1) THEN assert_failed(w1, "assert(!in_stage)")
             ELSE IF next = 0 THEN push_exit(w1)
             ELSE push_next_view(w1, next)

update_fold(w) ==
    LET w0 == [w EXCEPT !.current_step = @ + 1]
        w1 == update_view_transforms(w0, w0.current_step, initial_animation_steps)
        w2 == [w1 EXCEPT !.state.in_fold = FALSE]
    IN  IF Stopped(w1) THEN w1
        ELSE IF w1.current_step # initial_animation_steps THEN w1
        ELSE IF ~w2.state.reversed_folds
            THEN IF Len(w2.active_views) = 1 THEN w2 ELSE start_unfold(w2)
        ELSE deactivate(w2)

update_unfold_nodrain(w) ==
    LET w0 == [w EXCEPT !.current_step = @ + 1]
        w1 == update_view_transforms(w0, w0.current_step, max_steps)
        w2 == [w1 EXCEPT !.state.in_unfold = FALSE]
    IN  IF Stopped(w1) THEN w1
        ELSE IF w1.current_step # max_steps THEN w1
        ELSE IF ~w2.state.reversed_folds THEN w2
        ELSE start_fold(w2)

update_unfold(w) ==
    LET w0 == [w EXCEPT !.current_step = @ + 1]
        w1 == update_view_transforms(w0, w0.current_step, max_steps)
        w2 == [w1 EXCEPT !.state.in_unfold = FALSE]
    IN  IF Stopped(w1) THEN w1
        ELSE IF w1.current_step # max_steps THEN w1
        ELSE IF ~w2.state.reversed_folds THEN dequeue_next_action(w2)
        ELSE start_fold(w2)

update_rotate(w) ==
    LET w0 == [w EXCEPT !.current_step = @ + 1]
        w1 == update_view_transforms(w0, w0.current_step, max_steps)
        w2 == [w1 EXCEPT !.state.in_rotate = FALSE]
    IN  IF Stopped(w1) THEN w1
        ELSE IF w1.current_step # max_steps THEN w1
        ELSE dequeue_next_action(w2)

update_animation(w) ==
    IF Stopped(w) THEN w
    ELSE IF w.state.in_fold THEN update_fold(w)
    ELSE IF w.state.in_unfold THEN update_unfold(w)
    ELSE IF w.state.in_rotate THEN update_rotate(w)
    ELSE w

cleanup_view(w, view) ==
    LET found == \E i \in 1 .. Len(w.views) : w.views[i] = view
        i == (CHOOSE k \in 1 .. Len(w.views) : w.views[k] = view) - 1
        w1 == [w EXCEPT !.views = Remove(@, view)]
        w2 == IF w1.views = <<>> THEN deactivate(w1) ELSE w1
        w3 == IF i <= w2.current_view_index
                  THEN [w2 EXCEPT !.current_view_index =
                           (@ + Len(w2.views) - 1) % Len(w2.views)]
                  ELSE w2
        w4 == [w3 EXCEPT !.active_views =
                  SelectSeq(@, LAMBDA e : e.view # view)]
    IN  IF ~found THEN w
        ELSE IF Stopped(w2) THEN w2
        ELSE IF w2.views = <<>> /\ i <= w2.current_view_index THEN undefined(w2)
        ELSE IF Len(w4.views) = 2 THEN push_next_view(w4, 1)
        ELSE w4

\* lines 192-238, reading the views before the answer of the output is known
activate_eager(w) ==
    LET w1 == activate_plugin(w, output, grab_interface, TRUE)
        w2 == update_transforms(update_views(w1))
        w3 == [w2 EXCEPT !.state.active = TRUE, !.state.mod_released = FALSE,
                         !.state.in_continuous_switch = FALSE,
                         !.state.reversed_folds = FALSE,
                         !.next_actions = <<>>]
        w4 == focus_view(grab(w3, grab_interface), NoView)
        w5 == setup_graphics(
                  connect_signal(add_output_effect(damage(auto_redraw(w4, TRUE)))))
    IN  IF is_plugin_active(w, output, grab_interface) THEN w
        ELSE IF ~w1.ret THEN w2
        ELSE IF w2.views = <<>>
            THEN deactivate_plugin(w2, output, grab_interface)
        ELSE [start_fold(w5) EXCEPT !.bg_transformer = TRUE]

activate(w) ==
    LET w1 == activate_plugin(w, output, grab_interface, TRUE)
        w2 == update_transforms(update_views(w1))
        w3 == [w2 EXCEPT !.state.active = TRUE, !.state.mod_released = FALSE,
                         !.state.in_continuous_switch = FALSE,
                         !.state.reversed_folds = FALSE,
                         !.next_actions = <<>>]
        w4 == focus_view(grab(w3, grab_interface), NoView)
        w5 == setup_graphics(
                  connect_signal(add_output_effect(damage(auto_redraw(w4, TRUE)))))
    IN  IF is_plugin_active(w, output, grab_interface) THEN w
        ELSE IF ~w1.ret THEN w1
        ELSE IF w2.views = <<>>
            THEN deactivate_plugin(w2, output, grab_interface)
        ELSE [start_fold(w5) EXCEPT !.bg_transformer = TRUE]

fast_switch(w) ==
    LET w1 == activate_plugin(w, output, grab_interface, TRUE)
        w2 == update_views(w1)
        InViews(v) == \E i \in 1 .. Len(w2.views) : w2.views[i] = v
        w3 == [w2 EXCEPT !.current_view_index = 0,
                         !.state.in_fast_switch = TRUE,
                         !.state.in_continuous_switch = TRUE,
                         !.state.active = TRUE,
                         !.state.mod_released = FALSE,
                         !.alpha = [v \in AllViews |->
                                       IF InViews(v) THEN 7 ELSE @[v]]]
        w4 == focus_view(grab(w3, grab_interface), NoView)
    IN  IF w.state.active THEN w
        ELSE IF ~w1.ret THEN w1
        ELSE IF Len(w2.views) < 1
            THEN deactivate_plugin(w2, output, grab_interface)
        ELSE fast_switch_next(w4)

handle_mod(w, mod, st) ==
    LET mod_released == (mod = MODIFIER_ALT /\ st = KEY_RELEASED)
        fast_mod_released == (mod = MODIFIER_ALT /\ st = KEY_RELEASED)
    IN  IF (mod_released /\ w.state.in_continuous_switch)
            \/ (fast_mod_released /\ w.state.in_fast_switch)
            THEN stop_continuous_switch(w)
        ELSE IF mod_released THEN [w EXCEPT !.state.mod_released = TRUE]
        ELSE w

handle_key(w, key, kstate) ==
    LET fast_switch_on(x) == x.state.in_fast_switch /\ key = KEY_ESC
        w1 == IF ~w.state.mod_released /\ (key = KEY_TAB \/ fast_switch_on(w))
                  THEN [w EXCEPT !.state.in_continuous_switch = TRUE]
                  ELSE w
        w2 == IF w1.state.active /\ (key = KEY_ENTER \/ key = KEY_TAB)
                    /\ ~w1.state.in_fast_switch
                  THEN push_exit(w1)
                  ELSE w1
    IN  IF kstate # KEY_PRESSED THEN w
        ELSE IF key = KEY_TAB /\ w1.state.in_continuous_switch
                  /\ ~w1.state.in_fast_switch
            THEN push_next_view(w1, 1)
        ELSE IF fast_switch_on(w1) /\ w1.state.in_continuous_switch
            THEN fast_switch_next(w1)
        ELSE IF Stopped(w2) THEN w2
        ELSE IF (key = KEY_LEFT \/ key = KEY_RIGHT) /\ ~w2.state.in_fast_switch
            THEN push_next_view(w2, IF key = KEY_LEFT THEN -1 ELSE 1)
        ELSE w2

init_binding(w) ==
    IF w.state.in_fast_switch THEN w
    ELSE IF ~w.state.active THEN activate(w)
    ELSE IF w.state.mod_released THEN push_exit(w)
    ELSE w

fast_switch_binding(w) ==
    IF w.state.active /\ ~w.state.in_fast_switch THEN w
    ELSE fast_switch(w)

\* lines 338-342: every registered effect runs once per frame
RECURSIVE run_effects(_, _)
run_effects(w, n) ==
    IF n = 0 THEN w ELSE run_effects(update_animation(w), n - 1)

\* lines 326-334
post_paint(w) ==
    LET w1 == run_effects(w, w.output_effects)
    IN  IF Stopped(w1) THEN w1
        ELSE IF w1.constant_redraw # 0 THEN schedule_redraw(w1)
        ELSE w1

\* lines 297-324: the render pass draws the views and swaps the buffers,
\* which takes the frame that was due; nothing else is called
\* (lines 300-301: frame_damage becomes what the damage manager collected)
paint(w, dmg) == [w EXCEPT !.frame_scheduled = FALSE, !.frame_damage = dmg]

\* lines 142-150
frame_cb(w, dmg) == paint(w, dmg)

\* ---------------------------------------------------------- workspace streams
\* Regions are sets of cells of the stream's workspace; Rect is all of it,
\* the rectangle (dx, dy, g.width, g.height) of lines 519 and 535.
Rect == 1 .. RectCells

Regions == SUBSET Rect

Scales == 1 .. MaxScale

\* lines 225-262: the part of frame_damage that lies on the workspace
get_ws_damage(w) == w.frame_damage

\* lines 451-496: the whole workspace is drawn at scale 1
workspace_stream_start(w) ==
    [w EXCEPT !.stream = [running |-> TRUE, scale_x |-> 1, scale_y |-> 1,
                          redrawn |-> Rect]]

\* lines 513-517, for positive scales: max(c / t, t / c) > 2
scaling_gt_2(c, t) == c > 2 * t \/ t > 2 * c

\* lines 498-633; redrawn is the region the views were rendered in
workspace_stream_update(w, scale_x, scale_y) ==
    LET current_resolution == w.stream.scale_x * w.stream.scale_y
        target_resolution == scale_x * scale_y
        ws_damage == IF scaling_gt_2(current_resolution, target_resolution)
                         THEN get_ws_damage(w) \cup Rect
                         ELSE get_ws_damage(w)
    IN  IF ws_damage = {} THEN [w EXCEPT !.stream.redrawn = {}]
        ELSE IF scale_x # w.stream.scale_x \/ scale_y # w.stream.scale_y
            THEN [w EXCEPT !.stream.scale_x = scale_x,
                           !.stream.scale_y = scale_y,
                           !.stream.redrawn = ws_damage \cup Rect]
        ELSE [w EXCEPT !.stream.redrawn = ws_damage]

\* lines 635-638
workspace_stream_stop(w) == [w EXCEPT !.stream.running = FALSE]

\* ------------------------------------------------------------------ surfaces
\* One tree of surfaces: surfaces[1] is a wayfire_view_t, the view TreeView of
\* the workspace; the others are subsurfaces and popups below it.  Boxes have
\* a position and a width, the vertical axis is left out.
TreeView == 1

NoSurface == 0       \* a null wayfire_surface_t*

Box(x, width) == [x |-> x, width |-> width]

BoxCells(box) == box.x .. (box.x + box.width - 1)

\* view.cpp:412-429: the view is on the output that was active, at x once
\* moved there (view.cpp:466-479), and has no buffer yet
wayfire_view_t(o, x) ==
    [parent_surface |-> NoSurface, kind |-> "view", output |-> o,
     geometry |-> Box(x, 0), width |-> 0, is_mapped |-> FALSE]

\* a view that was mapped, as the views of the workspace are
mapped_view(o, x) == [wayfire_view_t(o, x) EXCEPT !.is_mapped = TRUE]

\* surface->subsurface is set for every second surface of the tree, the
\* others are wayfire_xdg6_popup objects
KindOf(s) == IF s % 2 = 0 THEN "subsurface" ELSE "popup"

\* surface_children of a surface
Children(w, s) ==
    {c \in 1 .. Len(w.surfaces) : w.surfaces[c].parent_surface = s}

\* view.cpp:265-270
RECURSIVE set_output(_, _, _)
RECURSIVE set_output_each(_, _, _)
set_output_each(w, cs, out) ==
    IF cs = {} THEN w
    ELSE LET c == CHOOSE c \in cs : TRUE
         IN  set_output_each(set_output(w, c, out), cs \ {c}, out)

set_output(w, s, out) ==
    set_output_each([w EXCEPT !.surfaces[s].output = out], Children(w, s), out)

\* view.cpp:124-151, with a parent; the constructor leaves `geometry` as
\* it finds it: g is what the memory held
wayfire_surface_t(w, parent_s, g) ==
    LET s == Len(w.surfaces) + 1
        w1 == [w EXCEPT !.surfaces =
                  Append(@, [parent_surface |-> parent_s, kind |-> KindOf(s),
                             output |-> NULL, geometry |-> g, width |-> 0,
                             is_mapped |-> KindOf(s) = "subsurface"])]
    IN  set_output(w1, s, w1.surfaces[parent_s].output)

\* view.cpp:173-176
RECURSIVE get_main_surface(_, _)
get_main_surface(w, s) ==
    IF w.surfaces[s].parent_surface # NoSurface
        THEN get_main_surface(w, w.surfaces[s].parent_surface)
        ELSE s

\* view.cpp:179-183 and 875-880: every child is one cell right of its parent
get_child_position(w, s) == 1

\* view.cpp:185-194, and 595-598 for the view
RECURSIVE get_output_position(_, _)
get_output_position(w, s) ==
    IF w.surfaces[s].kind = "view" THEN w.surfaces[s].geometry.x
    ELSE get_output_position(w, w.surfaces[s].parent_surface)
         + get_child_position(w, s)

\* view.cpp:196-205; width is surface->current->width
get_output_geometry(w, s) ==
    Box(get_output_position(w, s), w.surfaces[s].width)

\* the window-management geometry of an undecorated view is its geometry
get_wm_geometry(w, s) == w.surfaces[s].geometry

\* wf_view_transformer_t::get_bounding_box of the installed transformer
transform_get_bounding_box(w, box) ==
    Box(box.x - w.bounding, box.width + 2 * w.bounding)

\* view.cpp:538-556
get_bounding_box(w, s) ==
    IF ~w.transformer[TreeView] THEN get_output_geometry(w, s)
    ELSE LET wm == get_wm_geometry(w, s)
             box == get_output_geometry(w, s)
             centred == Box((box.x - wm.x) - wm.width \div 2, box.width)
             tbox == transform_get_bounding_box(w, centred)
         IN  Box(tbox.x + wm.x + wm.width \div 2, tbox.width)

\* output.cpp:190-193, with the box and the output it is added on
damage_box(w, o, box) ==
    LET w1 == [w EXCEPT !.damaged = Append(@, [output |-> o, box |-> box])]
    IN  IF o = output THEN damage(w1) ELSE w1

\* view.cpp:600-620, forwarding every box as it is
view_damage_raw(w, s, box) == damage_box(w, w.surfaces[s].output, box)

\* view.cpp:600-620
view_damage(w, s, box) ==
    LET wm_geometry == get_wm_geometry(w, s)
    IN  IF w.transformer[TreeView]
            THEN LET real_box == Box(box.x - wm_geometry.x, box.width)
                     w1 == [w EXCEPT !.cached_damage = @ \cup BoxCells(real_box)]
                 IN  damage_box(w1, w.surfaces[s].output, get_bounding_box(w1, s))
            ELSE damage_box(w, w.surfaces[s].output, box)

\* s->damage(box), a virtual call
RECURSIVE damage_rect(_, _, _)

\* view.cpp:228-232
surface_damage(w, s, box) ==
    IF w.surfaces[s].parent_surface = NoSurface
        THEN assert_failed(w, "assert(parent_surface)")
        ELSE damage_rect(w, w.surfaces[s].parent_surface, box)

damage_rect(w, s, box) ==
    IF w.surfaces[s].kind = "view" THEN view_damage(w, s, box)
    ELSE surface_damage(w, s, box)

\* s->damage(): view.cpp:234-238, and 1225-1228 for the view
damage_all(w, s) ==
    IF w.surfaces[s].kind = "view" THEN damage_rect(w, s, get_bounding_box(w, s))
    ELSE damage_rect(w, s, w.surfaces[s].geometry)

\* the base class answers by surface->subsurface; view.cpp:882 for popups
is_subsurface(w, s) ==
    IF w.surfaces[s].kind = "popup" THEN TRUE
    ELSE w.surfaces[s].kind = "subsurface"

\* view.cpp:219-226: damage(&dmg), box by box
RECURSIVE damage_region(_, _, _)
damage_region(w, s, boxes) ==
    IF boxes = <<>> \/ Stopped(w) THEN w
    ELSE damage_region(damage_rect(w, s, Head(boxes)), s, Tail(boxes))

\* view.cpp:240-263; buffer_damage is the damage of the buffer, as boxes
\* relative to the surface
surface_commit(w, s, buffer_damage) ==
    LET rect == get_output_geometry(w, s)
        dmg == [i \in 1 .. Len(buffer_damage) |->
                   Box(buffer_damage[i].x + rect.x, buffer_damage[i].width)]
        w1 == IF is_subsurface(w, s) /\ rect # w.surfaces[s].geometry
                  THEN LET w2 == damage_rect(w, s, w.surfaces[s].geometry)
                           w3 == damage_rect(w2, s, rect)
                       IN  [w3 EXCEPT !.surfaces[s].geometry = rect]
                  ELSE w
    IN  damage_region(w1, s, dmg)

\* view.cpp:442-450: the stored size becomes the size of the buffer
update_size(w, s) ==
    [w EXCEPT !.surfaces[s].geometry.width = w.surfaces[s].width]

\* what update_size(w, s) returns
size_changed(w, s) == w.surfaces[s].geometry.width # w.surfaces[s].width

\* view.cpp:1203-1223, without a decoration
view_commit(w, s, buffer_damage) ==
    LET w1 == surface_commit(w, s, buffer_damage)
        old == get_output_geometry(w1, s)
        w2 == update_size(w1, s)
    IN  IF size_changed(w1, s)
            THEN damage_all(damage_box(w2, w2.surfaces[s].output, old), s)
            ELSE w2

\* the commit event of a wlr_surface whose current state has become
\* (width, surface_damage): surface_committed_cb calls s->commit()
commit(w, s, width, buffer_damage) ==
    LET w1 == [w EXCEPT !.surfaces[s].width = width]
    IN  IF w.surfaces[s].kind = "view" THEN view_commit(w1, s, buffer_damage)
        ELSE surface_commit(w1, s, buffer_damage)

\* view.cpp:704-708, for the view of the tree; grow is how far the new
\* transformer's bounding box reaches out of a box
set_transformer(w, present, grow) ==
    [w EXCEPT !.transformer[TreeView] = present, !.bounding = grow]

\* lines 918-947, for a view nobody keeps (keep_count = 0)
detach_view_next(w, v) ==
    IF w.active_view # v THEN w
    ELSE IF w.ws_views = <<>> THEN [w EXCEPT !.active_view = NoView]
    ELSE focus_view(w, Head(w.ws_views))

detach_view_removed(w, v) ==
    IF Stopped(w) THEN w ELSE detach_view_next(view_removed(w, v), v)

detach_view(w, v) ==
    detach_view_removed(IF w.connected
                            THEN cleanup_view(emit_signal(w, "detach-view"), v)
                            ELSE emit_signal(w, "detach-view"),
                        v)

\* lines 918-947, for a view that is kept (keep_count > 0): it stays on the
\* workspace, and the other views of the workspace are mapped
next_active_view(w, v) ==
    IF Stopped(w) \/ w.active_view # v THEN w
    ELSE IF Remove(w.ws_views, v) = <<>> THEN [w EXCEPT !.active_view = NoView]
    ELSE [w EXCEPT !.active_view = Head(Remove(w.ws_views, v))]

detach_view_kept(w, v) ==
    next_active_view(IF w.connected
                         THEN cleanup_view(emit_signal(w, "detach-view"), v)
                         ELSE emit_signal(w, "detach-view"),
                     v)

\* lines 909-916 on output o.  A view that was not on the workspace has just
\* been created: it has no transformer and is opaque.  Of the other output
\* neither the workspace nor the listeners are followed.
attach_view(w, o, v) ==
    LET w0 == IF v = TreeView THEN [w EXCEPT !.surfaces[1].output = o] ELSE w
        w1 == IF \E i \in 1 .. Len(w.ws_views) : w.ws_views[i] = v THEN w0
              ELSE [w0 EXCEPT !.transformer[v] = FALSE,
                              !.transform[v] = Identity, !.alpha[v] = 10]
    IN  IF o = output
            THEN emit_signal(view_bring_to_front(w1, v), "attach-view")
            ELSE w0

\* view.cpp:711-744 for the view of the tree, which is not special;
\* workarea_x is the origin of workspace->get_workarea()
map_shifted(w) ==
    IF size_changed(w, 1) THEN damage_all(update_size(w, 1), 1)
    ELSE update_size(w, 1)

map_attach(w, o) ==
    IF o = output THEN focus_view(attach_view(w, o, TreeView), TreeView)
    ELSE attach_view(w, o, TreeView)

map_unmapped(w) ==
    map_attach(emit_signal([w EXCEPT !.surfaces[1].is_mapped = TRUE],
                           "map-view"),
               w.surfaces[1].output)

map_checked(w, was_mapped) == IF was_mapped THEN w ELSE map_unmapped(w)

map(w, workarea_x) ==
    map_checked(
        map_shifted([w EXCEPT !.surfaces[1].geometry.x = @ + workarea_x]),
        w.surfaces[1].is_mapped)

\* view.cpp:124-151 on the lookup table and the child lists: a new surface
\* object with parent parent_s
new_wayfire_surface_t(w, parent_s) ==
    LET s == Len(w.objects) + 1
    IN  [w EXCEPT !.objects =
                      Append([@ EXCEPT ![parent_s].surface_children =
                                           Append(@, s)],
                             [parent_surface |-> parent_s,
                              surface_children |-> <<>>]),
                  !.allocated = @ \cup {s},
                  !.desktop_surfaces = @ \cup {s}]

\* the storage of a vector after erase: the elements that are left, then
\* what the slots behind them held before
Storage(live, raw) ==
    [i \in 1 .. Len(raw) |-> IF i <= Len(live) THEN live[i] ELSE raw[i]]

\* view.cpp:153-172, `delete s`.  The loop of lines 170-171 runs over
\* surface_children while each deleted child erases itself from it (lines
\* 158-168): an iterator that was invalidated is used, and an object can be
\* deleted twice.  iterators: "abort" where the library checks iterators,
\* "stale" where an iterator is a pointer into the storage; double_free:
\* "abort" where the allocator detects it, "continue" where the destructor
\* runs again on the memory as it was left.
RECURSIVE delete_surface(_, _, _, _)
RECURSIVE delete_children(_, _, _, _, _, _)
delete_children(w, s, raw, it, iterators, double_free) ==
    IF Stopped(w) \/ it > Len(raw) THEN w
    ELSE LET w1 == delete_surface(w, raw[it], iterators, double_free)
             storage == Storage(w1.objects[s].surface_children, raw)
         IN  IF Stopped(w1) THEN w1
             ELSE IF iterators = "abort" THEN undefined(w1)
             ELSE delete_children(w1, s, storage, it + 1, iterators,
                                  double_free)

delete_surface(w, s, iterators, double_free) ==
    LET p == w.objects[s].parent_surface
        w1 == [w EXCEPT !.desktop_surfaces = @ \ {s}]
        w2 == IF p # 0
                  THEN [w1 EXCEPT !.objects[p].surface_children = Remove(@, s)]
                  ELSE w1
        w3 == delete_children(w2, s, w2.objects[s].surface_children, 1,
                              iterators, double_free)
    IN  IF s \notin w.allocated /\ double_free = "abort" THEN undefined(w)
        ELSE IF Stopped(w3) THEN w3
        ELSE [w3 EXCEPT !.allocated = @ \ {s}]

\* view.cpp:1090-1100, wayfire_xdg6_decoration_view::init
decoration_init(w, d, view) ==
    [w EXCEPT !.decor_views[d].contained = view,
              !.decor_views[d].surface_children = Append(@, view)]

\* view.cpp:1261-1276 for the view of the tree; decor is a decoration view
\* or NoView (nullptr)
set_decoration_init(w, decor) ==
    IF Stopped(w) THEN w
    ELSE [decoration_init(w, decor, TreeView) EXCEPT !.decoration = decor]

set_decoration(w, decor) ==
    IF decor = NoView THEN [w EXCEPT !.decoration = NoView]
    ELSE set_decoration_init(IF w.surfaces[1].output = output
                                 THEN detach_view_kept(w, TreeView) ELSE w,
                             decor)

\* view.cpp:1158-1171; close() of the contained view sends a request to the
\* client and changes nothing here
release_child(w, d) ==
    IF w.decor_views[d].contained = NoView THEN w
    ELSE [set_decoration([w EXCEPT !.decor_views[d].surface_children = <<>>],
                         NoView)
             EXCEPT !.decor_views[d].contained = NoView]

\* view.cpp:213-217 and 746-757 for the view of the tree
unmap_detach(w) ==
    IF w.surfaces[1].output = output THEN detach_view_kept(w, TreeView) ELSE w

unmap(w) ==
    emit_signal(
        unmap_detach(damage_all([w EXCEPT !.surfaces[1].is_mapped = FALSE],
                                1)),
        "unmap-view")

\* ------------------------------------------ the output's activation protocol
ActivatePlugin(o, owner, lower_fs) ==
    /\ fault = "none"
    /\ owner # NULL => active_plugins[o][owner] < MaxRefs
    /\ Commit(activate_plugin(World, o, owner, lower_fs),
              [name |-> "activate_plugin", args |-> <<o, owner>>])

DeactivatePlugin(o, owner) ==
    /\ fault = "none"
    /\ Commit(deactivate_plugin(World, o, owner),
              [name |-> "deactivate_plugin", args |-> <<o, owner>>])

Grab(owner) ==
    /\ fault = "none"
    /\ Commit(grab(World, owner),
              [name |-> "grab", args |-> <<owner>>])

FocusOutput(o) ==
    /\ fault = "none"
    /\ Commit(focus_output(World, o),
              [name |-> "focus_output", args |-> <<o>>])

NoOp == [name |-> "init", args |-> <<>>]

\* a stream that was not started
NoStream == [running |-> FALSE, scale_x |-> 1, scale_y |-> 1, redrawn |-> {}]

InitSwitcherAt(x) ==
    /\ state = [active |-> FALSE, mod_released |-> FALSE, in_fold |-> FALSE,
                in_unfold |-> FALSE, in_rotate |-> FALSE,
                reversed_folds |-> FALSE, in_continuous_switch |-> FALSE,
                in_fast_switch |-> FALSE]
    /\ next_actions = <<>>
    /\ current_view_index = 0
    /\ current_step = 0
    /\ views = <<>>
    /\ active_views = <<>>
    /\ ws_views = [i \in 1 .. NumViews |-> i]
    /\ transformer = [v \in AllViews |-> FALSE]
    /\ transform = [v \in AllViews |-> Identity]
    /\ bg_transformer = FALSE
    /\ attribs = "wide"
    /\ alpha = [v \in AllViews |-> 10]
    /\ active_view = 1
    /\ constant_redraw = 0
    /\ output_effects = 0
    /\ idle_redraw_source = TRUE     \* render_manager() ends in schedule_redraw()
    /\ idle_callbacks = 1
    /\ frame_scheduled = FALSE
    /\ frame_damage = {}
    /\ stream = NoStream
    /\ surfaces = <<mapped_view(output, x)>>
    /\ parent = [v \in AllViews |-> NoView]
    /\ children = [v \in AllViews |-> <<>>]
    /\ focus_parent = FALSE
    /\ decoration = NoView
    /\ decor_views = [d \in Decorations |->
                         [contained |-> NoView, surface_children |-> <<>>]]
    /\ desktop_surfaces = {1}
    /\ objects = <<[parent_surface |-> 0, surface_children |-> <<>>]>>
    /\ allocated = {1}
    /\ cached_damage = {}
    /\ bounding = 0
    /\ connected = FALSE
    /\ fault = "none"
    /\ ret = TRUE
    /\ emitted = <<>>
    /\ last = NoOp

\* the view of the tree is where it was created
InitSwitcher == InitSwitcherAt(0)

InitOutput ==
    /\ active_output \in Outputs
    /\ active_plugins = [o \in Outputs |-> [p \in GrabInterfaces |-> 0]]
    /\ grabbed = [p \in GrabInterfaces |-> FALSE]

InitPlugins ==
    /\ InitOutput
    /\ abilities_mask \in [GrabInterfaces -> Masks]
    /\ InitSwitcher

NextPlugins ==
    \/ \E o \in Outputs, owner \in GrabInterfaces \cup {NULL}, lower_fs \in BOOLEAN :
           ActivatePlugin(o, owner, lower_fs)
    \/ \E o \in Outputs, owner \in GrabInterfaces : DeactivatePlugin(o, owner)
    \/ \E owner \in GrabInterfaces : Grab(owner)
    \/ \E o \in Outputs : FocusOutput(o)

SpecPlugins == InitPlugins /\ [][NextPlugins]_vars
\* ------------------------------------------------- the switcher on its output
\* counters that grow without limit are followed up to their bounds
Bounded(w) ==
    /\ Occurrences(w.next_actions, 0) <= MaxQueuedExit
    /\ Occurrences(w.next_actions, -1) <= MaxQueuedPrev
    /\ w.current_step <= MaxStep
    /\ w.output_effects <= MaxHooks

\* the input manager hands key and modifier events to the grabbing interface
InputGrabbed == grabbed[grab_interface]

\* The switcher writes the matrices of the transformers and never reads them:
\* Spec follows it without them, SpecStages (below) with them.
Handler(w) ==
    /\ fault = "none"
    /\ Bounded(w)
    /\ Store([w EXCEPT !.transform = transform])
    /\ UNCHANGED <<ret, emitted, last>>

Frame == \E w \in {run_effects(World, output_effects)} : Handler(w)

HandleKey(key, kstate) ==
    /\ InputGrabbed
    /\ Handler(handle_key(World, key, kstate))

HandleMod(mod, st) ==
    /\ InputGrabbed
    /\ Handler(handle_mod(World, mod, st))

InitBinding == Handler(init_binding(World))

FastSwitchBinding == Handler(fast_switch_binding(World))

DetachView(v) ==
    /\ \E i \in 1 .. Len(ws_views) : ws_views[i] = v
    /\ Handler(detach_view(World, v))

Init ==
    /\ InitOutput
    /\ active_output = output
    /\ abilities_mask = [p \in GrabInterfaces |-> ABILITY_CONTROL_WM]
    /\ InitSwitcher

Next ==
    \/ Frame
    \/ \E key \in Keys, kstate \in KeyStates : HandleKey(key, kstate)
    \/ \E mod \in Mods, st \in KeyStates : HandleMod(mod, st)
    \/ InitBinding
    \/ \E v \in AllViews : DetachView(v)

Spec == Init /\ [][Next]_vars

\* regular and fast sessions of the switcher over a fixed set of views
NextFast ==
    \/ Frame
    \/ \E key \in Keys, kstate \in KeyStates : HandleKey(key, kstate)
    \/ \E mod \in Mods, st \in KeyStates : HandleMod(mod, st)
    \/ InitBinding
    \/ FastSwitchBinding

SpecFast == Init /\ [][NextFast]_vars

\* a session in which an exit request was applied (push_exit sets
\* reversed_folds) or queued (a 0 in next_actions)
ExitAccepted ==
    /\ state.active
    /\ state.reversed_folds \/ Occurrences(next_actions, 0) > 0

\* the hook is called with every frame while auto_redraw is on; no input
\* arrives after an exit request was accepted
NextExit ==
    \/ Frame
    \/ ~ExitAccepted
       /\ \/ \E key \in Keys, kstate \in KeyStates : HandleKey(key, kstate)
          \/ \E mod \in Mods, st \in KeyStates : HandleMod(mod, st)
          \/ InitBinding
          \/ \E v \in AllViews : DetachView(v)

\* what a frame of a running stage changes
stage_vars == <<state, next_actions, current_step, current_view_index, fault>>

\* a frame after an exit request was accepted that moves the stage on
FrameAfterExit ==
    /\ ExitAccepted
    /\ \E w \in {run_effects(World, output_effects)} :
           /\ <<w.state, w.next_actions, w.current_step,
                w.current_view_index, w.fault>> # stage_vars
           /\ state' = w.state
           /\ next_actions' = w.next_actions
           /\ current_step' = w.current_step
           /\ current_view_index' = w.current_view_index
           /\ fault' = w.fault
           /\ Handler(w)

SpecExit == Init /\ [][NextExit]_vars /\ WF_stage_vars(FrameAfterExit)

\* ------------------------------------- the stages, with what they draw
Tracked(w) ==
    /\ fault = "none"
    /\ Bounded(w)
    /\ Store(w)
    /\ UNCHANGED <<ret, emitted, last>>

StageFrame == Tracked(run_effects(World, output_effects))

StageKey(key, kstate) ==
    /\ InputGrabbed
    /\ Tracked(handle_key(World, key, kstate))

StageMod(mod, st) ==
    /\ InputGrabbed
    /\ Tracked(handle_mod(World, mod, st))

StageBinding == Tracked(init_binding(World))

\* a client maps a new view on the output
AttachView(v) ==
    /\ \A i \in 1 .. Len(ws_views) : ws_views[i] # v
    /\ Tracked(attach_view(World, output, v))

\* the workspace starts with some of the views, the others may come later
InitStages ==
    /\ InitOutput
    /\ active_output = output
    /\ abilities_mask = [p \in GrabInterfaces |-> ABILITY_CONTROL_WM]
    /\ \E n \in 1 .. NumViews : ws_views = [i \in 1 .. n |-> i]
    /\ state = [active |-> FALSE, mod_released |-> FALSE, in_fold |-> FALSE,
                in_unfold |-> FALSE, in_rotate |-> FALSE,
                reversed_folds |-> FALSE, in_continuous_switch |-> FALSE,
                in_fast_switch |-> FALSE]
    /\ next_actions = <<>> /\ current_view_index = 0 /\ current_step = 0
    /\ views = <<>> /\ active_views = <<>>
    /\ transformer = [v \in AllViews |-> FALSE]
    /\ transform = [v \in AllViews |-> Identity]
    /\ bg_transformer = FALSE
    /\ attribs = "wide"
    /\ alpha = [v \in AllViews |-> 10]
    /\ active_view = 1
    /\ constant_redraw = 0 /\ output_effects = 0 /\ connected = FALSE
    /\ idle_redraw_source = TRUE /\ idle_callbacks = 1
    /\ frame_scheduled = FALSE
    /\ frame_damage = {}
    /\ stream = NoStream
    /\ surfaces = <<mapped_view(output, 0)>>
    /\ parent = [v \in AllViews |-> NoView]
    /\ children = [v \in AllViews |-> <<>>]
    /\ focus_parent = FALSE
    /\ decoration = NoView
    /\ decor_views = [d \in Decorations |->
                         [contained |-> NoView, surface_children |-> <<>>]]
    /\ desktop_surfaces = {1}
    /\ objects = <<[parent_surface |-> 0, surface_children |-> <<>>]>>
    /\ allocated = {1}
    /\ cached_damage = {} /\ bounding = 0
    /\ fault = "none" /\ ret = TRUE /\ emitted = <<>> /\ last = NoOp

NextStages ==
    \/ StageFrame
    \/ \E key \in Keys, kstate \in KeyStates : StageKey(key, kstate)
    \/ \E mod \in Mods, st \in KeyStates : StageMod(mod, st)
    \/ StageBinding
    \/ \E v \in AllViews : AttachView(v)

SpecStages == InitStages /\ [][NextStages]_vars

\* ------------------------------------------------ the render manager's loop
\* calls of the render manager by the event loop, by views and by plugins,
\* with the switcher's activation as the plugin that registers a hook
Call(w, op) ==
    /\ fault = "none"
    /\ Bounded(w)
    /\ w.constant_redraw <= MaxRedraw
    /\ Commit(w, op)

ScheduleRedraw ==
    Call(schedule_redraw(World), [name |-> "schedule_redraw", args |-> <<>>])

AutoRedraw(redraw) ==
    Call(auto_redraw(World, redraw), [name |-> "auto_redraw", args |-> <<redraw>>])

Damage == Call(damage(World), [name |-> "damage", args |-> <<>>])

\* the event loop runs the idle entries it holds
RedrawIdleCb ==
    /\ idle_callbacks > 0
    /\ Call(redraw_idle_cb(World), [name |-> "redraw_idle_cb", args |-> <<>>])

\* the damage manager's frame signal
FrameCb ==
    /\ frame_scheduled
    /\ \E dmg \in Regions :
           Call(frame_cb(World, dmg), [name |-> "frame_cb", args |-> <<>>])

RenderBinding ==
    Call(init_binding(World), [name |-> "init_binding", args |-> <<>>])

RenderKey(key, kstate) ==
    /\ InputGrabbed
    /\ Call(handle_key(World, key, kstate),
            [name |-> "handle_key", args |-> <<key, kstate>>])

RenderMod(mod, st) ==
    /\ InputGrabbed
    /\ Call(handle_mod(World, mod, st),
            [name |-> "handle_mod", args |-> <<mod, st>>])

NextRender ==
    \/ ScheduleRedraw
    \/ \E redraw \in BOOLEAN : AutoRedraw(redraw)
    \/ Damage
    \/ RedrawIdleCb
    \/ FrameCb
    \/ RenderBinding
    \/ \E key \in Keys, kstate \in KeyStates : RenderKey(key, kstate)
    \/ \E mod \in Mods, st \in KeyStates : RenderMod(mod, st)

SpecRender == Init /\ [][NextRender]_vars

\* the event loop is fair to its idle entries and to the frames that are due
FairRender ==
    SpecRender /\ WF_vars(RedrawIdleCb) /\ WF_vars(FrameCb)

\* ------------------------------------------------- a workspace stream's life
StreamStart ==
    Call(workspace_stream_start(World),
         [name |-> "workspace_stream_start", args |-> <<>>])

StreamUpdate(scale_x, scale_y) ==
    /\ stream.running
    /\ Call(workspace_stream_update(World, scale_x, scale_y),
            [name |-> "workspace_stream_update", args |-> <<scale_x, scale_y>>])

StreamStop ==
    /\ stream.running
    /\ Call(workspace_stream_stop(World),
            [name |-> "workspace_stream_stop", args |-> <<>>])

StreamPaint ==
    \E dmg \in Regions :
        Call(paint(World, dmg), [name |-> "paint", args |-> <<dmg>>])

NextStream ==
    \/ StreamStart
    \/ \E scale_x \in Scales, scale_y \in Scales : StreamUpdate(scale_x, scale_y)
    \/ StreamStop
    \/ StreamPaint

SpecStream == Init /\ [][NextStream]_vars

\* ------------------------------------- the switcher beside another plugin
\* The bindings of the switcher while another plugin of the output comes and
\* goes and the focus moves between the outputs.
FastBinding ==
    Call(fast_switch_binding(World), [name |-> "fast_switch_binding", args |-> <<>>])

InitDenied ==
    /\ InitOutput
    /\ abilities_mask \in [GrabInterfaces -> Masks]
    /\ abilities_mask[grab_interface] = ABILITY_CONTROL_WM
    /\ InitSwitcher

NextDenied ==
    \/ \E owner \in GrabInterfaces \ {grab_interface}, lower_fs \in BOOLEAN :
           ActivatePlugin(output, owner, lower_fs)
    \/ \E owner \in GrabInterfaces \ {grab_interface} :
           DeactivatePlugin(output, owner)
    \/ \E o \in Outputs : FocusOutput(o)
    \/ RenderBinding
    \/ FastBinding
    \/ \E mod \in Mods, st \in KeyStates : RenderMod(mod, st)

SpecDenied == InitDenied /\ [][NextDenied]_vars

\* ------------------------------------------------------ a tree of surfaces
\* what the memory of a new surface's geometry may hold
StaleGeometries == {Box(0, 0), Box(0, 1)}

\* a client creates a subsurface or a popup below a surface of the tree
NewSurface(parent_s, g) ==
    /\ Len(surfaces) < NumSurfaces
    /\ parent_s \in 1 .. Len(surfaces)
    /\ Call(wayfire_surface_t(World, parent_s, g),
            [name |-> "wayfire_surface_t", args |-> <<>>])

\* a client commits a buffer of some width, with or without damage
SurfaceCommit(s, width, damaged_buffer) ==
    /\ s \in 1 .. Len(surfaces)
    /\ Call(commit(World, s, width,
                   IF damaged_buffer THEN <<Box(0, width)>> ELSE <<>>),
            [name |-> "commit", args |-> <<>>])

\* a surface that has a buffer damages the box it is drawn in
SurfaceDamage(s) ==
    /\ s \in 1 .. Len(surfaces)
    /\ surfaces[s].width > 0
    /\ Call(damage_rect(World, s, get_output_geometry(World, s)),
            [name |-> "damage", args |-> <<>>])

SetTransformer(present, grow) ==
    /\ present \/ grow = 0
    /\ Call(set_transformer(World, present, grow),
            [name |-> "set_transformer", args |-> <<>>])

\* the view of the tree is mapped on an output, or moved to one
AttachOn(o) ==
    Call(attach_view(World, o, TreeView),
         [name |-> "attach_view", args |-> <<o>>])

InitSurfaces ==
    /\ InitOutput
    /\ active_output = output
    /\ abilities_mask = [p \in GrabInterfaces |-> ABILITY_CONTROL_WM]
    /\ InitSwitcherAt(ViewOffset)

NextSurfaces ==
    \/ \E parent_s \in 1 .. NumSurfaces, g \in StaleGeometries :
           NewSurface(parent_s, g)
    \/ \E s \in 1 .. NumSurfaces, width \in 1 .. MaxSize,
             damaged_buffer \in BOOLEAN : SurfaceCommit(s, width, damaged_buffer)
    \/ \E s \in 1 .. NumSurfaces : SurfaceDamage(s)
    \/ \E present \in BOOLEAN, grow \in 0 .. MaxGrow :
           SetTransformer(present, grow)

SpecSurfaces == InitSurfaces /\ [][NextSurfaces]_vars

NextAttach ==
    \/ \E parent_s \in 1 .. NumSurfaces, g \in StaleGeometries :
           NewSurface(parent_s, g)
    \/ \E s \in 1 .. NumSurfaces, width \in 1 .. MaxSize,
             damaged_buffer \in BOOLEAN : SurfaceCommit(s, width, damaged_buffer)
    \/ \E o \in Outputs : AttachOn(o)

SpecAttach == InitSurfaces /\ [][NextAttach]_vars

\* ------------------------------------------------- transient views, focus
\* wm.cpp:91-107: the plugin connects its listener
InitFocusParent ==
    /\ ~focus_parent
    /\ Call([World EXCEPT !.focus_parent = TRUE],
            [name |-> "wayfire_handle_focus_parent::init", args |-> <<>>])

\* a client makes view v transient for p, or for nothing
SetParent(v, p) ==
    /\ v # p
    /\ Call(set_parent(World, v, p), [name |-> "set_parent", args |-> <<>>])

FocusView(v) ==
    /\ \E i \in 1 .. Len(ws_views) : ws_views[i] = v
    /\ Call(focus_view(World, v), [name |-> "focus_view", args |-> <<v>>])

NextParents ==
    \/ InitFocusParent
    \/ \E v \in AllViews, p \in AllViews \cup {NoView} : SetParent(v, p)
    \/ \E v \in AllViews : FocusView(v)
    \/ \E v \in AllViews : DetachView(v)

SpecParents == Init /\ [][NextParents]_vars

\* ------------------------------------------------------- mapping the view
MapView(workarea_x) ==
    /\ surfaces[1].geometry.x + workarea_x <= MaxX
    /\ Call(map(World, workarea_x), [name |-> "map", args |-> <<>>])

UnmapView ==
    /\ surfaces[1].is_mapped
    /\ Call(unmap(World), [name |-> "unmap", args |-> <<>>])

NextMap ==
    \/ \E workarea_x \in 0 .. MaxWorkarea : MapView(workarea_x)
    \/ UnmapView
    \/ \E width \in 1 .. MaxSize, damaged_buffer \in BOOLEAN :
           SurfaceCommit(1, width, damaged_buffer)
    \/ \E v \in AllViews : FocusView(v)
    \/ \E present \in BOOLEAN, grow \in 0 .. MaxGrow :
           SetTransformer(present, grow)

SpecMap == InitSurfaces /\ [][NextMap]_vars

\* ------------------------------------------------------------ decorations
SetDecoration(decor) ==
    /\ decor # NoView => Len(decor_views[decor].surface_children) < MaxWraps
    /\ Call(set_decoration(World, decor),
            [name |-> "set_decoration", args |-> <<decor>>])

ReleaseChild(d) ==
    Call(release_child(World, d), [name |-> "release_child", args |-> <<d>>])

NextDecor ==
    \/ \E decor \in Decorations \cup {NoView} : SetDecoration(decor)
    \/ \E d \in Decorations : ReleaseChild(d)
    \/ \E v \in AllViews : FocusView(v)

SpecDecor == InitSurfaces /\ [][NextDecor]_vars

\* ------------------------------------------------- destroying surfaces
SubsurfaceCreated(parent_s) ==
    /\ Len(objects) < NumObjects
    /\ parent_s \in desktop_surfaces
    /\ Call(new_wayfire_surface_t(World, parent_s),
            [name |-> "wayfire_surface_t", args |-> <<parent_s>>])

SurfaceDestroyed(s, iterators, double_free) ==
    /\ s \in allocated
    /\ Call(delete_surface(World, s, iterators, double_free),
            [name |-> "~wayfire_surface_t", args |-> <<s>>])

NextDestroy ==
    \/ \E parent_s \in 1 .. NumObjects : SubsurfaceCreated(parent_s)
    \/ \E s \in 1 .. NumObjects, iterators \in {"abort", "stale"},
             double_free \in {"abort", "continue"} :
           SurfaceDestroyed(s, iterators, double_free)

SpecDestroy == InitSurfaces /\ [][NextDestroy]_vars

\* ------------------------------------------------- claims: activation (C1-C5)
\* the step is a call output->activate_plugin(owner) with a real owner
IsActivate(o, owner) ==
    /\ last' = [name |-> "activate_plugin", args |-> <<o, owner>>]
    /\ owner # NULL

IsDeactivate(o, owner) ==
    last' = [name |-> "deactivate_plugin", args |-> <<o, owner>>]

ActiveNow(o) == {p \in GrabInterfaces : active_plugins[o][p] > 0}

Overlap(p, q) == BitAnd(abilities_mask[p], abilities_mask[q]) # 0

\* C1: while a plugin whose mask overlaps the owner's mask is in the output's
\* active set, activate_plugin(owner) for a different owner returns false and
\* leaves the active set as it was.
C1_ConflictRefused ==
    [][\A o \in Outputs, owner \in GrabInterfaces :
          (IsActivate(o, owner)
             /\ \E q \in ActiveNow(o) \ {owner} : Overlap(q, owner))
          => (ret' = FALSE /\ active_plugins' = active_plugins)]_vars

C1_Witness ==
    /\ last.name = "activate_plugin"
    /\ last.args[2] # NULL
    /\ active_output = last.args[1]
    /\ ret = FALSE
    /\ \E q \in ActiveNow(last.args[1]) \ {last.args[2]} :
           Overlap(q, last.args[2])

\* C2: on the focused output, with a plugin of mask A active, activate_plugin
\* for another plugin of mask B, A & B = 0, returns true and both are in the
\* active set afterwards.
C2_DisjointCoexist ==
    [][\A o \in Outputs, owner \in GrabInterfaces :
          (IsActivate(o, owner)
             /\ active_output = o
             /\ ActiveNow(o) # {}
             /\ owner \notin ActiveNow(o)
             /\ \A q \in ActiveNow(o) : ~Overlap(q, owner))
          => (ret' = TRUE /\ ActiveNow(o)' = ActiveNow(o) \cup {owner})]_vars

C2_Witness ==
    /\ last.name = "activate_plugin"
    /\ ret = TRUE
    /\ ActiveNow(last.args[1]) = GrabInterfaces
    /\ \A p \in GrabInterfaces : abilities_mask[p] # 0
    /\ \A p, q \in GrabInterfaces : p # q => ~Overlap(p, q)

\* C3: activate_plugin on an output that is not the focused output returns
\* false, changes no active set and no grab, and emits no signal.
C3_UnfocusedRefused ==
    [][\A o \in Outputs, owner \in GrabInterfaces :
          (IsActivate(o, owner) /\ active_output # o)
          => /\ ret' = FALSE
             /\ active_plugins' = active_plugins
             /\ grabbed' = grabbed
             /\ active_output' = active_output
             /\ emitted' = <<>>]_vars

C3_Witness ==
    /\ last.name = "activate_plugin"
    /\ last.args[2] # NULL
    /\ active_output # last.args[1]
    /\ ret = FALSE
    /\ ActiveNow(last.args[1]) = {}

\* C4 as stated: re-activating an active owner on the focused output returns
\* true and leaves the active-plugin collection exactly as it was, members
\* and multiplicities.
C4_Original ==
    [][\A o \in Outputs, owner \in GrabInterfaces :
          (IsActivate(o, owner) /\ active_output = o /\ owner \in ActiveNow(o))
          => (ret' = TRUE /\ active_plugins' = active_plugins)]_vars

\* C4 amended: re-activating an active owner on the focused output returns
\* true and keeps the members of the active set, but adds one reference to
\* the owner; a deactivate_plugin(owner) that leaves references behind returns
\* false and keeps the owner active and its grab.
C4_ReactivateCounts ==
    [][\A o \in Outputs, owner \in GrabInterfaces :
          /\ (IsActivate(o, owner) /\ active_output = o
                 /\ owner \in ActiveNow(o))
             => /\ ret' = TRUE
                /\ ActiveNow(o)' = ActiveNow(o)
                /\ active_plugins' =
                      [active_plugins EXCEPT ![o][owner] = @ + 1]
          /\ (IsDeactivate(o, owner) /\ active_plugins[o][owner] > 1)
             => /\ ret' = FALSE
                /\ active_plugins' =
                      [active_plugins EXCEPT ![o][owner] = @ - 1]
                /\ grabbed' = grabbed]_vars

C4_Witness ==
    /\ last.name = "deactivate_plugin"
    /\ ret = FALSE
    /\ active_plugins[last.args[1]][last.args[2]] >= 1
    /\ grabbed[last.args[2]]

\* C5 as stated: when deactivate_plugin(owner) returns for an owner that was
\* active, owner is not in the active set and does not hold the grab.
C5_Original ==
    [][\A o \in Outputs, owner \in GrabInterfaces :
          (IsDeactivate(o, owner) /\ owner \in ActiveNow(o))
          => (owner \notin ActiveNow(o)' /\ ~grabbed'[owner])]_vars

\* C5 amended: when deactivate_plugin(owner) removes the last reference of an
\* active owner it returns true, owner is not in the active set, ungrab() has
\* been called and the output's input grab interface is not owner.
C5_LastDeactivateReleases ==
    [][\A o \in Outputs, owner \in GrabInterfaces :
          (IsDeactivate(o, owner) /\ active_plugins[o][owner] = 1)
          => /\ ret' = TRUE
             /\ owner \notin ActiveNow(o)'
             /\ ~grabbed'[owner]
             /\ get_input_grab_interface(World, o)' # owner]_vars

C5_Witness ==
    /\ last.name = "deactivate_plugin"
    /\ ret = TRUE
    /\ emitted = <<"_activation_request">>
    /\ ActiveNow(last.args[1]) = {}
    /\ \E o \in Outputs : ActiveNow(o) # {}
\* ------------------------------------------- claims: switcher queue (C6-C10)
\* C6: the assertion of dequeue_next_action never fails: whenever an action is
\* taken from the queue, none of in_fold, in_unfold, in_rotate is set.
C6_DrainAssertionHolds == fault # "assert(!in_stage)"

\* C7: the queue of pending actions never holds more than MAX_ACTIONS entries.
C7_QueueBounded == Len(next_actions) <= MAX_ACTIONS

\* The states in which the hooks of the next frame are called: before the
\* first call, between two calls and after the last one.
FrameStates == {run_effects(World, k) : k \in 0 .. output_effects}

\* The states in which update_animation is called during the next frame.
TickStates ==
    {w \in {run_effects(World, k) : k \in 0 .. output_effects - 1} : ~Stopped(w)}

RECURSIVE PushAll(_, _)
PushAll(w, ds) ==
    IF ds = <<>> THEN w ELSE PushAll(push_next_view(w, Head(ds)), Tail(ds))

Steps == {-1, 1}

\* C8: five next-view actions pushed while a stage is animating, starting
\* from an empty queue: the first four are queued in arrival order, the fifth
\* is not queued and start_rotate runs for it (with at least two views the
\* index moves by it and a rotate begins at step 0).
C8_FifthRotates ==
    (fault = "none" /\ Animating(World) /\ next_actions = <<>>)
    => \A ds \in [1 .. MAX_ACTIONS + 1 -> Steps] :
          LET w4 == PushAll(World, SubSeq(ds, 1, MAX_ACTIONS))
              w5 == PushAll(World, ds)
              n == Len(views)
          IN  /\ w4.next_actions = SubSeq(ds, 1, MAX_ACTIONS)
              /\ w4.state = state
              /\ w4.current_view_index = current_view_index
              /\ w5.next_actions = w4.next_actions
              /\ IF n > 1
                     THEN /\ w5.state = [state EXCEPT !.in_rotate = TRUE]
                          /\ w5.current_step = 0
                          /\ w5.current_view_index =
                                (current_view_index + ds[MAX_ACTIONS + 1] + n) % n
                     ELSE w5 = w4

\* four steps are queued and a rotate was started on top of the running stage
C8_Witness ==
    /\ fault = "none"
    /\ next_actions = <<1, 1, 1, 1>>
    /\ state.in_rotate
    /\ state.in_fold \/ state.in_unfold
    /\ current_step = 0
    /\ Len(views) = NumViews

\* the call update_animation(w) is the final step of a stage
CompletesFold(w) ==
    w.state.in_fold /\ w.current_step + 1 = initial_animation_steps

CompletesUnfold(w) ==
    ~w.state.in_fold /\ w.state.in_unfold /\ w.current_step + 1 = max_steps

CompletesRotate(w) ==
    /\ ~w.state.in_fold /\ ~w.state.in_unfold /\ w.state.in_rotate
    /\ w.current_step + 1 = max_steps

Renderable(w) == update_view_transforms(w, 0, 1).fault = "none"

\* what applying a queued action to w1 (idle, entry removed) must have done
Applied(w, w1, next) ==
    LET n == Len(w.views)
    IN  IF next = 0
            THEN /\ w1.state.reversed_folds
                 /\ w1.current_step = 0 \/ n = 0
                 /\ IF n >= 2 THEN w1.state.in_unfold /\ ~w1.state.in_fold
                              ELSE w1.state.in_fold /\ ~w1.state.in_unfold
                 /\ ~w1.state.in_rotate
        ELSE IF n > 1
            THEN /\ w1.state.in_rotate
                 /\ ~w1.state.in_fold /\ ~w1.state.in_unfold
                 /\ w1.current_step = 0
                 /\ w1.current_view_index = (w.current_view_index + next + n) % n
        ELSE ~Animating(w1) /\ w1.current_view_index = w.current_view_index

RECURSIVE UpdateUnfoldTimes(_, _)
UpdateUnfoldTimes(w, n) ==
    IF n = 0 \/ Stopped(w) THEN w ELSE UpdateUnfoldTimes(update_unfold(w), n - 1)

\* start_unfold() has just returned
JustUnfolded(w) ==
    /\ ~Stopped(w)
    /\ w.state.in_unfold /\ ~w.state.in_fold
    /\ w.current_step = 0
    /\ w.active_views = start_unfold(w).active_views

\* C10 as stated: after start_unfold() and max_steps calls of update_unfold()
\* in_unfold is false, and a forward unfold with a queued action has consumed
\* exactly one queue entry.
C10_Original ==
    \A w \in FrameStates :
        JustUnfolded(w)
        => LET w1 == UpdateUnfoldTimes(w, max_steps)
           IN  /\ ~w1.state.in_unfold
               /\ (~w.state.reversed_folds /\ w.next_actions # <<>>)
                  => Len(w1.next_actions) = Len(w.next_actions) - 1

\* C10 amended: start_unfold() followed by max_steps calls of update_unfold()
\* ends that unfold.  A reversed unfold consumes nothing and starts a fold.  A
\* forward unfold with a queued action consumes exactly the head entry and
\* applies it once, unless a rotate is pending, when the drain assertion
\* fails; in_unfold is false afterwards except when the applied action is an
\* exit with at least two views, which starts the reversed unfold.
C10_UnfoldRoundTrip ==
    \A w \in FrameStates :
        JustUnfolded(w)
        => LET w1 == UpdateUnfoldTimes(w, max_steps)
               queued == w.next_actions # <<>>
               exits == queued /\ Head(w.next_actions) = 0 /\ Len(w.views) >= 2
                           /\ ~w.state.in_rotate
           IN  /\ w1.fault # "assert(tr)"
               /\ w.state.reversed_folds
                  => /\ w1.next_actions = w.next_actions
                     /\ w1.state.in_fold /\ ~w1.state.in_unfold
                     /\ w1.current_step = 0
               /\ (~w.state.reversed_folds /\ ~queued)
                  => /\ w1.state = [w.state EXCEPT !.in_unfold = FALSE]
                     /\ w1.current_step = max_steps
                     /\ w1.next_actions = <<>>
               /\ (~w.state.reversed_folds /\ queued)
                  => /\ w1.next_actions = Tail(w.next_actions)
                     /\ w1.state.in_unfold = (exits /\ w1.fault = "none")
                     /\ IF w.state.in_rotate
                            THEN w1.fault = "assert(!in_stage)"
                            ELSE Applied(w, w1, Head(w.next_actions))

\* a forward unfold has just started with an exit at the head of the queue
C10_Witness ==
    /\ JustUnfolded(World)
    /\ ~state.reversed_folds /\ ~state.in_rotate
    /\ Len(views) >= 2
    /\ next_actions # <<>> /\ Head(next_actions) = 0
    /\ UpdateUnfoldTimes(World, max_steps).state.reversed_folds
    /\ UpdateUnfoldTimes(World, max_steps).state.in_unfold

\* ------------------------------------------- claims: what the stages draw
RECURSIVE UpdateFoldTimes(_, _)
UpdateFoldTimes(w, n) ==
    IF n = 0 \/ Stopped(w) THEN w ELSE UpdateFoldTimes(update_fold(w), n - 1)

\* start_fold() has just returned, over at least one view
JustFolded(w) ==
    /\ ~Stopped(w)
    /\ w.state.in_fold
    /\ w.current_step = 0
    /\ w.active_views # <<>>
    /\ w.active_views = start_fold(w).active_views

\* the view is drawn at the end values of the scale and offset of e
AtFoldEnd(w, e) ==
    /\ w.transform[e.view].scaling =
           [x |-> Exact(e.scale_x.end), y |-> Exact(e.scale_y.end)]
    /\ w.transform[e.view].translation =
           [x |-> Exact(e.off_x.end), y |-> Exact(e.off_y.end),
            z |-> Exact(e.off_z.end)]

\* C11: start_fold() over N >= 1 views followed by initial_animation_steps
\* calls of update_fold() leaves no fault, in_fold false and every view of
\* the fold drawn at the end values of its scale and offset, none at a value
\* in between.
C11_FoldReachesEnd ==
    \A w \in FrameStates :
        JustFolded(w)
        => LET w1 == UpdateFoldTimes(w, initial_animation_steps)
           IN  /\ w1.fault = "none"
               /\ ~w1.state.in_fold
               /\ \A i \in 1 .. Len(w.active_views) : AtFoldEnd(w1, w.active_views[i])

\* The slots of the unfolded layout: the centre (0), the 'next' side (1) and
\* the 'previous' side (-1); e animates from one slot to another.
Moves(e, from, to) ==
    /\ e.off_x = duple(<<1, from>>, <<1, to>>)
    /\ e.off_y = duple(1, 1)
    /\ e.off_z = duple(IF from = 0 THEN 0 ELSE -1, IF to = 0 THEN 0 ELSE -1)
    /\ e.rot = duple(-from, -to)
    /\ e.updates = UPDATE_ROTATION + UPDATE_OFFSET

EntriesOf(w, v) == SelectSeq(w.active_views, LAMBDA e : e.view = v)

\* C12: with n >= 3 views and current index i, start_rotate(dir) for dir = 1
\* or -1 sets the index to (i + dir) mod n; the new current view animates
\* from the slot on side dir into the centre, the old current view from the
\* centre to the slot on the other side, and the view beyond the new current
\* one stays staged at the slot on side dir (start equals end).
C12_RotateAssignsSlots ==
    (fault = "none" /\ Len(views) >= 3 /\ current_view_index < Len(views))
    => \A dir \in Steps :
          LET n == Len(views)
              w1 == start_rotate(World, dir)
              cur == (current_view_index + dir + n) % n
              Only(v) == EntriesOf(w1, v)[1]
          IN  /\ w1.current_view_index = cur
              /\ w1.state.in_rotate /\ w1.current_step = 0
              /\ Len(w1.active_views) = 3
              /\ Len(EntriesOf(w1, At(views, cur))) = 1
              /\ Moves(Only(At(views, cur)), dir, 0)
              /\ Len(EntriesOf(w1, At(views, current_view_index))) = 1
              /\ Moves(Only(At(views, current_view_index)), 0, -dir)
              /\ Len(EntriesOf(w1, At(views, (cur + dir + n) % n))) >= 1
              /\ Moves(EntriesOf(w1, At(views, (cur + dir + n) % n))
                          [Len(EntriesOf(w1, At(views, (cur + dir + n) % n)))],
                       dir, dir)

\* a rotate to the next of three views has just started from index 0
C12_Witness ==
    /\ fault = "none"
    /\ state.in_rotate /\ ~state.in_fold /\ ~state.in_unfold
    /\ current_step = 0
    /\ Len(views) = 3 /\ current_view_index = 1
    /\ Len(active_views) = 3
    /\ active_views[1].view = views[2] /\ Moves(active_views[1], 1, 0)
    /\ active_views[2].view = views[1] /\ Moves(active_views[2], 0, -1)
    /\ active_views[3].view = views[3] /\ Moves(active_views[3], 1, 1)

\* ------------------------------------------- claims: the last view goes
\* C13: when the switcher is active with a single view in its list and
\* cleanup_view removes that view, the call completes without undefined
\* behaviour (no element of the empty list is read, no index is taken modulo
\* zero), and afterwards state.active is false and the plugin is not in the
\* active set of the output.
C13_LastViewCleanup ==
    (fault = "none" /\ state.active /\ ~state.in_fast_switch /\ Len(views) = 1)
    => LET w1 == cleanup_view(World, views[1])
       IN  /\ w1.fault = "none"
           /\ ~w1.state.active
           /\ ~is_plugin_active(w1, output, grab_interface).ret

\* ------------------------------------------------- claims: fast switching
\* views[current_view_index] has alpha 1.0 and every other view of the list 0.7
OneActive(w) ==
    /\ w.current_view_index < Len(w.views)
    /\ \A i \in 1 .. Len(w.views) :
           w.alpha[w.views[i]] = IF i - 1 = w.current_view_index THEN 10 ELSE 7

RECURSIVE FastSwitchNextTimes(_, _)
FastSwitchNextTimes(w, n) ==
    IF n = 0 \/ Stopped(w) THEN w
    ELSE FastSwitchNextTimes(fast_switch_next(w), n - 1)

\* C14: in fast-switch mode exactly one view of the list is the active one
\* (alpha 1.0, the others 0.7); fast_switch_next() moves the index by one
\* modulo the number of views and keeps that pattern; as many triggers as
\* there are views bring the index and the alphas back.
C14_OneActiveView ==
    (fault = "none" /\ state.in_fast_switch)
    => LET n == Len(views)
           w1 == fast_switch_next(World)
           wn == FastSwitchNextTimes(World, n)
       IN  /\ n >= 1
           /\ OneActive(World)
           /\ w1.fault = "none"
           /\ w1.current_view_index = (current_view_index + 1) % n
           /\ OneActive(w1)
           /\ wn.current_view_index = current_view_index
           /\ wn.alpha = alpha

\* the second of several views is the active one of a fast switch
C14_Witness ==
    /\ fault = "none"
    /\ state.in_fast_switch /\ state.active
    /\ Len(views) = NumViews
    /\ current_view_index = 1
    /\ alpha[views[1]] = 7 /\ alpha[views[2]] = 10

\* C15: state.in_fast_switch is never true together with in_fold, in_unfold
\* or in_rotate.
C15_FastExcludesStages ==
    ~(state.in_fast_switch /\ Animating(World))

\* C16: schedule_redraw is idempotent.  As long as the idle callback has not
\* run, one redraw_idle_cb entry is registered however often schedule_redraw
\* was called, and one more call changes nothing; when the callback has run
\* no entry is left, and the next call registers one.
C16_OneIdleCallback ==
    /\ idle_callbacks = (IF idle_redraw_source THEN 1 ELSE 0)
    /\ schedule_redraw(World).idle_callbacks = 1
    /\ schedule_redraw(schedule_redraw(World)) = schedule_redraw(World)
    /\ idle_redraw_source
           => /\ schedule_redraw(World) = World
              /\ redraw_idle_cb(World).idle_callbacks = 0
              /\ ~redraw_idle_cb(World).idle_redraw_source

\* schedule_redraw was called on a pending redraw, and the callback has run
C16_Witness ==
    /\ last.name = "schedule_redraw"
    /\ idle_redraw_source /\ idle_callbacks = 1
    /\ frame_scheduled

\* C17: constant_redraw is never negative, whatever auto_redraw calls were
\* made, and a release without a request leaves it at zero.
C17_RedrawCountNotNegative ==
    /\ constant_redraw >= 0
    /\ auto_redraw(World, FALSE).constant_redraw >= 0
    /\ constant_redraw = 0 => auto_redraw(World, FALSE).constant_redraw = 0

\* auto_redraw(false) at zero: the only call that returns before
\* schedule_redraw with the count at zero
C17_Witness ==
    /\ last.name = "auto_redraw" /\ last.args = <<FALSE>>
    /\ constant_redraw = 0
    /\ ~idle_redraw_source

\* C18: a handled frame event runs every registered effect hook: the program
\* is then in the state the hooks leave it in.
C18_FrameRunsHooks ==
    [][last'.name = "frame_cb"
          => LET w == run_effects(World, output_effects)
             IN  /\ state' = w.state
                 /\ current_step' = w.current_step
                 /\ active_views' = w.active_views]_vars

\* C19: while constant_redraw is greater than zero a redraw or a frame is
\* pending again and again, under an event loop that runs its idle entries
\* and delivers the frames that are due.
C19_KeepsRedrawing ==
    []<>(constant_redraw = 0 \/ idle_redraw_source \/ frame_scheduled)

\* activate() and fast_switch() are reached and the output refuses
Refused(w, name) ==
    /\ ~w.state.active
    /\ name = "init_binding"
           => ~w.state.in_fast_switch /\ ~is_plugin_active(w, output, grab_interface)
    /\ ~activate_plugin(w, output, grab_interface, TRUE).ret

\* C20: a refused activation changes nothing.  When activate_plugin refuses
\* the switcher, because the output is not the focused one or because an
\* active plugin shares a capability, activate() and fast_switch() leave the
\* flags, the views, the queue, the grab, the redraw count, the hooks, the
\* signal connections and the running plugins as they were.
C20_DeniedActivationInert ==
    [][(last'.name \in {"init_binding", "fast_switch_binding"}
            /\ Refused(World, last'.name))
          => /\ ~ret'
             /\ UNCHANGED <<state, views, active_views, next_actions,
                            current_view_index, current_step, grabbed,
                            constant_redraw, output_effects, connected,
                            active_plugins, active_view, ws_views, transformer,
                            alpha, attribs, idle_redraw_source, idle_callbacks,
                            frame_scheduled, fault>>]_vars

\* init_binding was refused because of a capability conflict
C20_Witness ==
    /\ last.name = "init_binding" /\ ~ret
    /\ Refused(World, "init_binding")
    /\ is_focused(World, output)
    /\ conflicts(World, output, grab_interface)
    /\ views = <<>> /\ ~grabbed[grab_interface]

\* -------------------------------------------- claims: how the stages follow
\* C21: the tick that takes a fold to initial_animation_steps ends it.  A
\* forward fold over more than one view goes on as an unfold, over exactly
\* one view it leaves no stage flag set; a reversed fold deactivates the
\* switcher: state.active is false and the plugin is not active on the output.
C21_FoldCompletion ==
    \A w \in TickStates :
        CompletesFold(w)
        => LET w1 == update_animation(w)
               n == Len(w.active_views)
           IN  /\ w1.fault = "none"
               /\ ~w1.state.in_fold
               /\ (~w.state.reversed_folds /\ n > 1) => w1.state.in_unfold
               /\ (~w.state.reversed_folds /\ n = 1) => ~Animating(w1)
               /\ w.state.reversed_folds
                  => /\ ~w1.state.active
                     /\ ~is_plugin_active(w1, output, grab_interface)

\* an exit finds the session running and no stage animating
ExitApplies(w) ==
    /\ ~Stopped(w)
    /\ w.state.active /\ ~w.state.in_fast_switch
    /\ ~Animating(w)

\* a tick of the closing half of a session
Closing(w) == w.state.active /\ w.state.reversed_folds

\* C22: the closing order.  An exit applied while no stage is animating sets
\* reversed_folds and starts a reversed unfold over two or more views and a
\* reversed fold otherwise; the tick that completes a reversed unfold starts
\* the reversed fold, the tick that completes the reversed fold deactivates,
\* and no tick of the closing half takes an action from the queue.
C22_ClosingOrder ==
    /\ \A w \in FrameStates :
           ExitApplies(w)
           => LET w1 == push_exit(w)
              IN  /\ w1.fault = "none"
                  /\ w1.state.reversed_folds
                  /\ w1.current_step = 0
                  /\ w1.next_actions = w.next_actions
                  /\ Len(w.views) >= 2 => w1.state.in_unfold /\ ~w1.state.in_fold
                  /\ Len(w.views) < 2 => w1.state.in_fold /\ ~w1.state.in_unfold
    /\ \A w \in TickStates :
           Closing(w)
           => LET w1 == update_animation(w)
              IN  /\ w1.fault = "none"
                  /\ w1.next_actions = w.next_actions
                  /\ w.state.in_fold \/ w.state.in_unfold
                  /\ CompletesUnfold(w)
                     => /\ w1.state.in_fold /\ ~w1.state.in_unfold
                        /\ w1.state.reversed_folds /\ w1.state.active
                  /\ CompletesFold(w) => ~w1.state.active

\* C23: the staged machine is in one control state at a time: at most one of
\* in_fold, in_unfold and in_rotate is true in every reachable state.
C23_OneStage ==
    /\ ~(state.in_fold /\ state.in_unfold)
    /\ ~(state.in_fold /\ state.in_rotate)
    /\ ~(state.in_unfold /\ state.in_rotate)

\* ----------------------------------------- claims: views that come and go
\* the view is one of the switcher's list
Listed(w, v) == \E j \in 1 .. Len(w.views) : w.views[j] = v

\* C24: cleanup_view(v) for a listed view leaves no entry of active_views
\* that refers to v, and while a stage is animating every entry of
\* active_views refers to a view of the switcher's list.
C24_ActiveViewsListed ==
    fault = "none"
    => /\ \A j \in 1 .. Len(views) :
              LET w1 == cleanup_view(World, views[j])
              IN  ~Stopped(w1) => EntriesOf(w1, views[j]) = <<>>
       /\ Animating(World)
              => \A i \in 1 .. Len(active_views) :
                     Listed(World, active_views[i].view)

\* C25: once the switcher has deactivated no view carries a transformer of
\* the switcher any more, the views that left the list during the session and
\* the background view included.
C25_TransformsReset ==
    (fault = "none" /\ ~state.active)
    => /\ \A v \in AllViews : ~transformer[v]
       /\ ~bg_transformer

\* C26: the assertion of update_view_transforms never fails: at every tick
\* of a stage each view of active_views has its wf_3D_view transformer.
C26_TransformerAsserted ==
    /\ fault # "assert(tr)"
    /\ \A w \in TickStates :
           Animating(w)
           => \A i \in 1 .. Len(w.active_views) :
                  w.transformer[w.active_views[i].view]

\* ------------------------------------------------ claims: streams, surfaces
\* C27: workspace_stream_update with a target scale that differs from the
\* stored one redraws the whole target rectangle and stores the target
\* scale, whatever damage has accumulated and whatever the ratio of the
\* resolutions is.
C27_ScaleChangeInvalidates ==
    (fault = "none" /\ stream.running)
    => \A scale_x \in Scales, scale_y \in Scales :
           (scale_x # stream.scale_x \/ scale_y # stream.scale_y)
           => LET w1 == workspace_stream_update(World, scale_x, scale_y)
              IN  /\ w1.stream.scale_x = scale_x
                  /\ w1.stream.scale_y = scale_y
                  /\ w1.stream.redrawn = Rect

\* the boxes damage(rect) is asked about
Boxes == [x : 0 .. ViewOffset + 1, width : 1 .. MaxSize]

\* C28: damage(rect) on any surface of the tree ends in exactly one damage
\* call on the render manager of the root view's output; without a
\* transformer the rectangle is forwarded as it is, with one the rectangle
\* joins the view's cached damage in view-local coordinates and the view's
\* bounding box is damaged instead.
C28_DamageDelegates ==
    fault = "none"
    => \A s \in 1 .. Len(surfaces), box \in Boxes :
           LET w1 == damage_rect(World, s, box)
               root == get_main_surface(World, s)
               local == Box(box.x - surfaces[root].geometry.x, box.width)
           IN  /\ w1.fault = "none"
               /\ surfaces[root].kind = "view"
               /\ Len(w1.damaged) = 1
               /\ w1.damaged[1].output = surfaces[root].output
               /\ w1.surfaces = surfaces
               /\ ~transformer[TreeView]
                  => /\ w1.damaged[1].box = box
                     /\ w1.cached_damage = cached_damage
               /\ transformer[TreeView]
                  => /\ w1.damaged[1].box = get_bounding_box(World, root)
                     /\ w1.cached_damage = cached_damage \cup BoxCells(local)

\* the one surface with a buffer, two levels below a moved and transformed
\* view, was damaged
C28_Witness ==
    /\ last.name = "damage"
    /\ Len(surfaces) = 3
    /\ surfaces[3].parent_surface = 2
    /\ surfaces[1].width = 0 /\ surfaces[2].width = 0
    /\ surfaces[3].width > 0
    /\ surfaces[1].geometry.x > 0
    /\ transformer[TreeView]
    /\ bounding > 0
    /\ cached_damage # {}
    /\ fault = "none"

\* the rectangle a surface occupied at its last commit
StoredRect(w, s) ==
    IF w.surfaces[s].kind = "view"
        THEN Box(w.surfaces[s].geometry.x, w.surfaces[s].geometry.width)
        ELSE w.surfaces[s].geometry

\* every cell of box is in a box that was damaged on the surface's output
DamagedOn(w, s, box) ==
    BoxCells(box) \subseteq
        UNION {BoxCells(w.damaged[i].box) :
                  i \in {j \in 1 .. Len(w.damaged) :
                             w.damaged[j].output = w.surfaces[s].output}}

\* C29: commit() of any surface (view, subsurface, popup) whose current
\* geometry differs from the stored one damages the old and the new
\* rectangle on the output and stores the new geometry.
C29_CommitDamagesBoth ==
    (fault = "none" /\ ~transformer[TreeView])
    => \A s \in 1 .. Len(surfaces), width \in 1 .. MaxSize :
           LET now == [World EXCEPT !.surfaces[s].width = width]
               old == StoredRect(World, s)
               rect == get_output_geometry(now, s)
               w1 == commit(World, s, width, <<>>)
           IN  rect # old
               => /\ DamagedOn(w1, s, old)
                  /\ DamagedOn(w1, s, rect)
                  /\ StoredRect(w1, s) = rect

\* C30: after o.attach_view(v) the view and every surface of its tree
\* refer to output o.
C30_AttachSetsOutputs ==
    (fault = "none" /\ last.name = "attach_view")
    => \A s \in 1 .. Len(surfaces) : surfaces[s].output = last.args[1]

\* ------------------------------------------ claims: sessions and their hook
\* C35: the switcher's hook is in the render manager's output_effects at most
\* once, and not at all while the switcher is inactive.
C35_HookOnceWhileActive ==
    fault = "none"
    => /\ output_effects <= 1
       /\ ~state.active => output_effects = 0

\* C34: while the switcher is active current_view_index is an index of the
\* view list, and no update of it is computed modulo an empty list.
C34_IndexInRange ==
    /\ fault # "ub"
    /\ (fault = "none" /\ state.active) => current_view_index < Len(views)

\* ------------------------------------------- claims: parents and the focus
\* C38: after any sequence of set_parent calls a view v is in p.children
\* exactly when v.parent = p, and exactly once.
C38_ParentsConsistent ==
    /\ fault # "ub"
    /\ \A v \in AllViews, p \in AllViews :
           Occurrences(children[p], v) = IF parent[v] = p THEN 1 ELSE 0

\* a view was made transient for a view that has another child, after it
\* had been the child of that other child
C38_Witness ==
    /\ last.name = "set_parent"
    /\ parent[1] = 2 /\ parent[3] = 2
    /\ children[2] = <<3, 1>>
    /\ children[3] = <<>> /\ children[1] = <<>>

\* C37: focus_view(v) returns when the focus-parent listener is connected,
\* whatever parents the views were given.
C37_FocusReturns == fault # "hang"

\* C36: after detach_view(v) the active view of the output is not v.
C36_DetachedNotActive ==
    fault = "none"
    => \A i \in 1 .. Len(ws_views) :
           LET w1 == detach_view(World, ws_views[i])
           IN  ~Stopped(w1) => w1.active_view # ws_views[i]

\* C39: map() on a view that is mapped leaves its geometry, its mapped
\* flag, the stacking of the workspace and the active view as they are, and
\* emits no signal.
C39_RepeatedMapInert ==
    [][(fault = "none" /\ surfaces[1].is_mapped /\ last'.name = "map")
       => /\ surfaces'[1].geometry = surfaces[1].geometry
          /\ surfaces'[1].is_mapped
          /\ ws_views' = ws_views
          /\ active_view' = active_view
          /\ emitted' = <<>>]_vars

\* C32: at most one decoration view has the view as its contained view or
\* in its child list, and it is the one in the view's decoration field.
C32_OneDecoration ==
    fault = "none"
    => \A d \in Decorations :
           (\/ decor_views[d].contained = TreeView
            \/ Occurrences(decor_views[d].surface_children, TreeView) > 0)
           => decoration = d

\* C31: after a surface was destroyed, no entry of the lookup table and no
\* child list refers to a destroyed surface, and every surface of the table
\* still has its whole chain of parents: a destroyed surface took all its
\* descendants with it.
C31_NoDanglingSurface ==
    fault = "none"
    => /\ desktop_surfaces \subseteq allocated
       /\ \A s \in allocated :
              /\ \A i \in 1 .. Len(objects[s].surface_children) :
                     objects[s].surface_children[i] \in allocated
              /\ objects[s].parent_surface # 0
                 => objects[s].parent_surface \in allocated

\* C33: once an exit request was accepted and frames keep arriving with no
\* further input, the switcher deactivates (or the run has stopped at a
\* failed assertion).
C33_ExitNeverLost ==
    (ExitAccepted /\ fault = "none") ~> (~state.active \/ fault # "none")

====
